---- MODULE Spec2Model ----
(***************************************************************************)
(* Model of the travel-partner compatibility scoring of the Travio         *)
(* backend: AIService.calculateCompatibilityScore and its helpers          *)
(* calculateDateOverlap, calculateBudgetCompatibility and                  *)
(* getTravelStyleCompatibility.                                            *)
(*                                                                         *)
(* JavaScript numbers are modelled as exact rationals [num, den] in lowest *)
(* terms with den > 0, plus the value NaN (den = 0).  Rounding error of    *)
(* IEEE doubles is not modelled; -0 is identified with 0.  Dates are       *)
(* integer time values, so `new Date(d)` of a date keeps its time value    *)
(* and the difference of two dates is the difference of the integers.      *)
(* An optional attribute is a sequence of length at most one: <<>> when    *)
(* the attribute is missing (undefined/null), <<v>> when it holds v.       *)
(***************************************************************************)
EXTENDS Integers, Sequences, FiniteSets, TLC

(***************************************************************************)
(* Bounds of the explored input space.                                     *)
(***************************************************************************)
MaxDestEntries == 6
MaxTagLen == 2
MaxWindows == 2
MaxDay == 2
MaxAmount == 3
MaxCalls == 3

(***************************************************************************)
(* JavaScript numbers.                                                     *)
(***************************************************************************)
Abs(n) == IF n < 0 THEN -n ELSE n

RECURSIVE GCD(_, _)
GCD(a, b) == IF b = 0 THEN a ELSE GCD(b, a % b)

NaN == [num |-> 0, den |-> 0]

IsNaN(x) == x.den = 0

\* the rational n/d, d # 0, in lowest terms with a positive denominator
Rat(n, d) ==
  LET g == GCD(Abs(n), Abs(d))
      s == IF d < 0 THEN -1 ELSE 1
  IN [num |-> (s * n) \div g, den |-> (s * d) \div g]

Num(n) == [num |-> n, den |-> 1]

Add(x, y) == IF IsNaN(x) \/ IsNaN(y) THEN NaN
             ELSE Rat(x.num * y.den + y.num * x.den, x.den * y.den)

Sub(x, y) == IF IsNaN(x) \/ IsNaN(y) THEN NaN
             ELSE Rat(x.num * y.den - y.num * x.den, x.den * y.den)

Mul(x, y) == IF IsNaN(x) \/ IsNaN(y) THEN NaN
             ELSE Rat(x.num * y.num, x.den * y.den)

\* x / y; 0/0 is NaN.  A non-zero numerator over 0 (an infinity) does not
\* arise: every divisor of the scoring code is zero only together with its
\* numerator (trip duration) or is guarded to be non-zero (trip budget).
Div(x, y) == IF IsNaN(x) \/ IsNaN(y) \/ y.num = 0 THEN NaN
             ELSE Rat(x.num * y.den, x.den * y.num)

\* the comparisons of JavaScript: false as soon as an operand is NaN
Lt(x, y) == ~IsNaN(x) /\ ~IsNaN(y) /\ x.num * y.den < y.num * x.den
Le(x, y) == ~IsNaN(x) /\ ~IsNaN(y) /\ x.num * y.den <= y.num * x.den
Ge(x, y) == Le(y, x)

\* Math.min and Math.max: NaN as soon as an argument is NaN
MathMin(x, y) == IF IsNaN(x) \/ IsNaN(y) THEN NaN ELSE IF Le(x, y) THEN x ELSE y
MathMax(x, y) == IF IsNaN(x) \/ IsNaN(y) THEN NaN ELSE IF Le(x, y) THEN y ELSE x

\* Math.round: the nearest integer, halves rounded up; NaN stays NaN
MathRound(x) == IF IsNaN(x) THEN NaN
                ELSE Num((2 * x.num + x.den) \div (2 * x.den))

\* the truth value JavaScript gives a number: 0 and NaN are falsy
TruthyNum(x) == ~IsNaN(x) /\ x.num # 0

(***************************************************************************)
(* Optional attributes.                                                    *)
(***************************************************************************)
Absent == <<>>
Some(v) == <<v>>
Has(a) == Len(a) = 1
Val(a) == a[1]
Range(s) == {s[i] : i \in 1..Len(s)}

(***************************************************************************)
(* AIService: the helpers of calculateCompatibilityScore.                  *)
(***************************************************************************)

\* Array.prototype.filter(x => other.includes(x)).length: the number of
\* positions of list whose entry occurs in other (repeated entries count)
CommonCount(list, other) ==
  Cardinality({i \in 1..Len(list) : list[i] \in Range(other)})

\* new Set([...a, ...b]).size
UnionSize(a, b) == Cardinality(Range(a) \cup Range(b))

\* the forEach of calculateDateOverlap: the summed length of the parts of
\* the availability windows that lie inside [tripStart, tripEnd]
RECURSIVE overlapDuration(_, _, _)
overlapDuration(availableDates, tripStart, tripEnd) ==
  IF availableDates = <<>> THEN 0
  ELSE LET dateRange == Head(availableDates)
           overlapStart == IF tripStart >= dateRange.start THEN tripStart
                           ELSE dateRange.start
           overlapEnd == IF tripEnd <= dateRange.end THEN tripEnd
                         ELSE dateRange.end
       IN (IF overlapStart < overlapEnd THEN overlapEnd - overlapStart ELSE 0)
          + overlapDuration(Tail(availableDates), tripStart, tripEnd)

calculateDateOverlapUnclamped(availableDates, tripStart, tripEnd) ==
  IF Len(availableDates) = 0 THEN Num(0)
  ELSE Mul(Div(Num(overlapDuration(availableDates, tripStart, tripEnd)),
               Num(tripEnd - tripStart)),
           Num(100))

calculateDateOverlap(availableDates, tripStart, tripEnd) ==
  IF Len(availableDates) = 0 THEN Num(0)
  ELSE LET tripDuration == tripEnd - tripStart
       IN MathMin(Mul(Div(Num(overlapDuration(availableDates, tripStart, tripEnd)),
                          Num(tripDuration)),
                      Num(100)),
                  Num(100))

\* `budget.max || budget.preferred * 1.5`
BudgetMax(budget) ==
  IF Has(budget.max) /\ Val(budget.max) # 0 THEN Num(Val(budget.max))
  ELSE IF Has(budget.preferred) THEN Mul(Num(Val(budget.preferred)), Rat(3, 2))
  ELSE NaN

\* `budget.min || 0`
BudgetMin(budget) ==
  IF Has(budget.min) /\ Val(budget.min) # 0 THEN Num(Val(budget.min)) ELSE Num(0)

calculateBudgetCompatibility(requesterBudget, recipientBudget, tripBudget) ==
  LET requesterMax == BudgetMax(requesterBudget)
      recipientMax == BudgetMax(recipientBudget)
      minBudget == MathMin(requesterMax, recipientMax)
      maxBudget == MathMax(BudgetMin(requesterBudget), BudgetMin(recipientBudget))
      t == Num(tripBudget)
  IN IF Ge(t, maxBudget) /\ Le(t, minBudget) THEN Num(100)
     ELSE IF Lt(t, maxBudget)
       THEN MathMax(Num(0),
                    Sub(Num(100), Mul(Div(Sub(maxBudget, t), maxBudget), Num(100))))
       ELSE MathMax(Num(0),
                    Sub(Num(100), Mul(Div(Sub(t, minBudget), t), Num(100))))

MatrixStyles == {"budget", "mid-range", "luxury", "backpacker"}

compatibilityMatrixSkewed ==
  [s1 \in MatrixStyles |->
    [s2 \in MatrixStyles |->
      IF s1 = s2 THEN 100
      ELSE IF s1 = "budget" THEN 90
      ELSE IF s2 = "budget" THEN 20
      ELSE 50]]

compatibilityMatrix ==
  [s1 \in MatrixStyles |->
    CASE s1 = "budget" ->
           [s2 \in MatrixStyles |->
             CASE s2 = "budget" -> 100 [] s2 = "mid-range" -> 70
               [] s2 = "luxury" -> 20 [] s2 = "backpacker" -> 90]
      [] s1 = "mid-range" ->
           [s2 \in MatrixStyles |->
             CASE s2 = "budget" -> 70 [] s2 = "mid-range" -> 100
               [] s2 = "luxury" -> 80 [] s2 = "backpacker" -> 50]
      [] s1 = "luxury" ->
           [s2 \in MatrixStyles |->
             CASE s2 = "budget" -> 20 [] s2 = "mid-range" -> 80
               [] s2 = "luxury" -> 100 [] s2 = "backpacker" -> 10]
      [] s1 = "backpacker" ->
           [s2 \in MatrixStyles |->
             CASE s2 = "budget" -> 90 [] s2 = "mid-range" -> 50
               [] s2 = "luxury" -> 10 [] s2 = "backpacker" -> 100]]

\* `compatibilityMatrix[style1]?.[style2] || 50`
getTravelStyleCompatibilityNoDefault(style1, style2) ==
  IF style1 \in MatrixStyles /\ style2 \in MatrixStyles
  THEN compatibilityMatrix[style1][style2]
  ELSE 0

getTravelStyleCompatibility(style1, style2) ==
  IF style1 \in MatrixStyles /\ style2 \in MatrixStyles
     /\ compatibilityMatrix[style1][style2] # 0
  THEN compatibilityMatrix[style1][style2]
  ELSE 50

(***************************************************************************)
(* AIService.calculateCompatibilityScore, one definition per factor block. *)
(***************************************************************************)
FactorKeys == <<"destinationMatch", "dateOverlap", "interestSimilarity",
                "budgetCompatibility", "travelStyleMatch", "languageMatch">>

FactorNames == Range(FactorKeys)

\* the object literal `factors` every call starts from
InitialFactors == [f \in FactorNames |-> Num(0)]

Min(a, b) == IF a <= b THEN a ELSE b

\* each common destination would count 10 instead of 20
destinationMatchTen(requester, recipient) ==
  IF Has(requester.preferredDestinations) /\ Has(recipient.preferredDestinations)
  THEN Num(Min(CommonCount(Val(requester.preferredDestinations),
                           Val(recipient.preferredDestinations)) * 10, 100))
  ELSE Num(0)

destinationMatch(requester, recipient) ==
  IF Has(requester.preferredDestinations) /\ Has(recipient.preferredDestinations)
  THEN Num(Min(CommonCount(Val(requester.preferredDestinations),
                           Val(recipient.preferredDestinations)) * 20, 100))
  ELSE Num(0)

dateOverlap(requester, recipient, trip) ==
  IF Has(requester.availableDates) /\ Has(recipient.availableDates) /\ Has(trip.dates)
  THEN LET tripStart == Val(trip.dates).start
           tripEnd == Val(trip.dates).end
           requesterOverlap ==
             calculateDateOverlap(Val(requester.availableDates), tripStart, tripEnd)
           recipientOverlap ==
             calculateDateOverlap(Val(recipient.availableDates), tripStart, tripEnd)
       IN MathMin(requesterOverlap, recipientOverlap)
  ELSE Num(0)

interestSimilarity(requester, recipient) ==
  IF Has(requester.interests) /\ Has(recipient.interests)
  THEN LET commonInterests ==
             CommonCount(Val(requester.interests), Val(recipient.interests))
           totalInterests ==
             UnionSize(Val(requester.interests), Val(recipient.interests))
       IN IF totalInterests > 0
          THEN Mul(Div(Num(commonInterests), Num(totalInterests)), Num(100))
          ELSE Num(0)
  ELSE Num(0)

budgetCompatibility(requester, recipient, trip) ==
  IF Has(requester.budgetRange) /\ Has(recipient.budgetRange)
     /\ Has(trip.budget) /\ TruthyNum(Num(Val(trip.budget)))
  THEN calculateBudgetCompatibility(Val(requester.budgetRange),
                                    Val(recipient.budgetRange), Val(trip.budget))
  ELSE Num(0)

\* the block without its guard: a missing style reads as undefined, equal
\* only to another missing style and unknown to the matrix
travelStyleMatchUnguarded(requester, recipient) ==
  IF requester.travelStyle = recipient.travelStyle THEN Num(100)
  ELSE Num(getTravelStyleCompatibility(
             IF Has(requester.travelStyle) THEN Val(requester.travelStyle) ELSE "undefined",
             IF Has(recipient.travelStyle) THEN Val(recipient.travelStyle) ELSE "undefined"))

travelStyleMatch(requester, recipient) ==
  IF Has(requester.travelStyle) /\ Has(recipient.travelStyle)
  THEN IF Val(requester.travelStyle) = Val(recipient.travelStyle) THEN Num(100)
       ELSE Num(getTravelStyleCompatibility(Val(requester.travelStyle),
                                            Val(recipient.travelStyle)))
  ELSE Num(0)

languageMatch(requester, recipient) ==
  IF Has(requester.languages) /\ Has(recipient.languages)
  THEN IF CommonCount(Val(requester.languages), Val(recipient.languages)) > 0
       THEN Num(100) ELSE Num(0)
  ELSE Num(0)

\* the weights of destination match and date overlap would be exchanged
weightsSwapped ==
  [destinationMatch |-> Rat(25, 100),
   dateOverlap |-> Rat(30, 100),
   interestSimilarity |-> Rat(20, 100),
   budgetCompatibility |-> Rat(15, 100),
   travelStyleMatch |-> Rat(5, 100),
   languageMatch |-> Rat(5, 100)]

\* the language weight would be 0.10, the table adding up to 1.05
weightsHeavy ==
  [destinationMatch |-> Rat(30, 100),
   dateOverlap |-> Rat(25, 100),
   interestSimilarity |-> Rat(20, 100),
   budgetCompatibility |-> Rat(15, 100),
   travelStyleMatch |-> Rat(5, 100),
   languageMatch |-> Rat(10, 100)]

weights ==
  [destinationMatch |-> Rat(30, 100),
   dateOverlap |-> Rat(25, 100),
   interestSimilarity |-> Rat(20, 100),
   budgetCompatibility |-> Rat(15, 100),
   travelStyleMatch |-> Rat(5, 100),
   languageMatch |-> Rat(5, 100)]

\* Object.keys(factors).reduce((sum, f) => sum + factors[f] * weights[f], 0)
RECURSIVE totalScore(_, _)
totalScore(factors, keys) ==
  IF keys = <<>> THEN Num(0)
  ELSE Add(totalScore(factors, SubSeq(keys, 1, Len(keys) - 1)),
           Mul(factors[keys[Len(keys)]], weights[keys[Len(keys)]]))

\* the six factor blocks in the order of the code
ComputeFactors(requester, recipient, trip) ==
  [InitialFactors EXCEPT
     !.destinationMatch = destinationMatch(requester, recipient),
     !.dateOverlap = dateOverlap(requester, recipient, trip),
     !.interestSimilarity = interestSimilarity(requester, recipient),
     !.budgetCompatibility = budgetCompatibility(requester, recipient, trip),
     !.travelStyleMatch = travelStyleMatch(requester, recipient),
     !.languageMatch = languageMatch(requester, recipient)]

calculateCompatibilityScore(requester, recipient, trip) ==
  LET factors == ComputeFactors(requester, recipient, trip)
  IN [score |-> MathRound(totalScore(factors, FactorKeys)), factors |-> factors]

(***************************************************************************)
(* routes/matches.js: the trip-vs-trip calculateCompatibilityScore of the  *)
(* discover route.  A destination is a string, modelled as the sequence of *)
(* its characters; startDate and endDate are days; travelStyle is a list   *)
(* of styles or absent.                                                    *)
(***************************************************************************)

\* String.prototype.toLowerCase, character by character
LowerChar(ch) == CASE ch = "P" -> "p" [] ch = "R" -> "r" [] OTHER -> ch

toLowerCase(s) == [i \in 1..Len(s) |-> LowerChar(s[i])]

\* String.prototype.includes: part occurs in s as a contiguous substring
includes(s, part) ==
  \E i \in 0..(Len(s) - Len(part)) : SubSeq(s, i + 1, i + Len(part)) = part

MaxInt(a, b) == IF a >= b THEN a ELSE b

\* `Same destination`: either destination contains the other, ignoring case
sameDestination(userTrip, otherTrip) ==
  \/ includes(toLowerCase(userTrip.destination), toLowerCase(otherTrip.destination))
  \/ includes(toLowerCase(otherTrip.destination), toLowerCase(userTrip.destination))

datesOverlap(userTrip, otherTrip) ==
  userTrip.startDate <= otherTrip.endDate /\ userTrip.endDate >= otherTrip.startDate

overlapPercentage(userTrip, otherTrip) ==
  LET overlapDays == Min(userTrip.endDate, otherTrip.endDate)
                       - MaxInt(userTrip.startDate, otherTrip.startDate)
      totalDays == MaxInt(userTrip.endDate, otherTrip.endDate)
                     - Min(userTrip.startDate, otherTrip.startDate)
  IN Mul(Div(Num(overlapDays), Num(totalDays)), Num(100))

tripBudgetCompatibility(userTrip, otherTrip) ==
  LET budgetDiff == Num(Abs(userTrip.budget - otherTrip.budget))
      avgBudget == Rat(userTrip.budget + otherTrip.budget, 2)
  IN MathMax(Num(0), Sub(Num(100), Mul(Div(budgetDiff, avgBudget), Num(100))))

commonInterests(userTrip, otherTrip) ==
  CommonCount(userTrip.interests, otherTrip.interests)

interestScoreOverMin(userTrip, otherTrip) ==
  Mul(Div(Num(commonInterests(userTrip, otherTrip)),
          Num(Min(Len(userTrip.interests), Len(otherTrip.interests)))),
      Num(20))

interestScore(userTrip, otherTrip) ==
  Mul(Div(Num(commonInterests(userTrip, otherTrip)),
          Num(MaxInt(Len(userTrip.interests), Len(otherTrip.interests)))),
      Num(20))

\* `user.travelStyle || []`
styleList(user) == IF Has(user.travelStyle) THEN Val(user.travelStyle) ELSE <<>>

commonStyles(user, otherUser) == CommonCount(styleList(user), styleList(otherUser))

styleScore(user, otherUser) ==
  Mul(Div(Num(commonStyles(user, otherUser)),
          Num(MaxInt(Len(styleList(user)), Len(styleList(otherUser))))),
      Num(10))

\* the amount the interests block adds to `score`
interestTerm(userTrip, otherTrip) ==
  IF commonInterests(userTrip, otherTrip) > 0
  THEN interestScore(userTrip, otherTrip) ELSE Num(0)

\* the amounts added to `score`, in the order of the code
tripTerms(userTrip, otherTrip, user, otherUser) ==
  [destination |-> IF sameDestination(userTrip, otherTrip) THEN Num(30) ELSE Num(0),
   dates |-> IF datesOverlap(userTrip, otherTrip)
             THEN Mul(Div(overlapPercentage(userTrip, otherTrip), Num(100)), Num(25))
             ELSE Num(0),
   budget |-> Mul(Div(tripBudgetCompatibility(userTrip, otherTrip), Num(100)), Num(15)),
   interests |-> interestTerm(userTrip, otherTrip),
   style |-> IF commonStyles(user, otherUser) > 0
             THEN styleScore(user, otherUser) ELSE Num(0)]

\* the labels pushed to `factors`, each with the number it is built from
Label(text, n) == [text |-> text, n |-> n]

PushIf(cond, list, label) == IF cond THEN Append(list, label) ELSE list

tripFactors(userTrip, otherTrip, user, otherUser) ==
  LET f1 == PushIf(sameDestination(userTrip, otherTrip), <<>>,
                   Label("Same destination", Absent))
      f2 == PushIf(datesOverlap(userTrip, otherTrip), f1,
                   Label("% date overlap",
                         Some(MathRound(overlapPercentage(userTrip, otherTrip)))))
      f3 == PushIf(Lt(Num(70), tripBudgetCompatibility(userTrip, otherTrip)), f2,
                   Label("Similar budget range", Absent))
      f4 == PushIf(commonInterests(userTrip, otherTrip) > 0, f3,
                   Label(" shared interests",
                         Some(Num(commonInterests(userTrip, otherTrip)))))
  IN PushIf(commonStyles(user, otherUser) > 0, f4,
            Label("Compatible travel style", Absent))

calculateCompatibilityScoreTrips(userTrip, otherTrip, user, otherUser) ==
  LET t == tripTerms(userTrip, otherTrip, user, otherUser)
      score == Add(Add(Add(Add(Add(Num(0), t.destination), t.dates), t.budget),
                       t.interests), t.style)
  IN [score |-> MathRound(score),
      factors |-> tripFactors(userTrip, otherTrip, user, otherUser)]

(***************************************************************************)
(* The candidate lists of GET /matches/potential and GET /matches/discover.*)
(* A value of the query string is a string, modelled as the sequence of    *)
(* its characters, or absent.                                              *)
(***************************************************************************)
Digits == <<"0", "1", "2", "3", "4", "5", "6", "7", "8", "9">>

IsDigit(ch) == \E i \in 1..Len(Digits) : Digits[i] = ch

DigitValue(ch) == (CHOOSE i \in 1..Len(Digits) : Digits[i] = ch) - 1

RECURSIVE Decimal(_)
Decimal(text) ==
  IF text = <<>> THEN 0
  ELSE 10 * Decimal(SubSeq(text, 1, Len(text) - 1)) + DigitValue(text[Len(text)])

\* the number a string is converted to by `>=`, `-` and `*`: the empty
\* string is 0, a string of digits its decimal value, any other string NaN
ToNumber(text) ==
  IF \A i \in 1..Len(text) : IsDigit(text[i]) THEN Num(Decimal(text)) ELSE NaN

\* parseInt of a string: the value of its leading digits, NaN without any
parseInt(text) ==
  LET n == CHOOSE k \in 0..Len(text) :
             /\ \A i \in 1..k : IsDigit(text[i])
             /\ k < Len(text) => ~IsDigit(text[k + 1])
  IN IF n = 0 THEN NaN ELSE Num(Decimal(SubSeq(text, 1, n)))

\* `const { page = 1, limit = 10, minScore = 50 } = req.query` read as numbers
QueryNumber(param, default) == IF Has(param) THEN ToNumber(Val(param)) ELSE Num(default)

QueryInt(param, default) == IF Has(param) THEN parseInt(Val(param)) ELSE Num(default)

\* the integer Array.prototype.slice makes of an index: NaN is 0
ToIndex(x) == IF IsNaN(x) THEN 0
              ELSE IF x.num >= 0 THEN x.num \div x.den ELSE -((-x.num) \div x.den)

\* Array.prototype.slice(start, end)
slice(list, start, end) ==
  LET len == Len(list)
      rel(k) == IF k < 0 THEN MaxInt(len + k, 0) ELSE Min(k, len)
      from == rel(ToIndex(start))
      to == rel(ToIndex(end))
  IN SubSeq(list, from + 1, to)

\* the comparator of both routes: (a, b) => b.score - a.score
compare(a, b) == Sub(b.score, a.score)

\* x is put in front of the trailing entries that the comparator orders
\* behind it; a comparator result of NaN counts as 0
RECURSIVE Insert(_, _)
Insert(sorted, x) ==
  IF sorted = <<>> THEN <<x>>
  ELSE LET last == sorted[Len(sorted)]
       IN IF Lt(Num(0), compare(last, x))
          THEN Append(Insert(SubSeq(sorted, 1, Len(sorted) - 1), x), last)
          ELSE Append(sorted, x)

\* Array.prototype.sort with that comparator (a stable sort)
RECURSIVE sort(_)
sort(list) ==
  IF list = <<>> THEN <<>>
  ELSE Insert(sort(SubSeq(list, 1, Len(list) - 1)), list[Len(list)])

\* `compatibility.score >= threshold`
passesAbove(score, threshold) == Lt(threshold, score)

passes(score, threshold) == Ge(score, threshold)

\* the loop of a route: the scored candidates that pass, in the order of
\* the candidates, each with its position among them
RECURSIVE collect(_, _)
collect(scores, threshold) ==
  IF scores = <<>> THEN <<>>
  ELSE LET n == Len(scores)
           rest == collect(SubSeq(scores, 1, n - 1), threshold)
       IN IF Has(scores[n]) /\ passes(Val(scores[n]), threshold)
          THEN Append(rest, [candidate |-> n, score |-> Val(scores[n])])
          ELSE rest

\* GET /potential scores a candidate unless a match with it exists
potentialScore(currentUser, candidate) ==
  IF candidate.existingMatch THEN Absent
  ELSE Some(calculateCompatibilityScore(currentUser, candidate.creator,
                                        candidate.trip).score)

\* GET /discover scores every candidate
discoverScore(ownTrip, currentUser, candidate) ==
  Some(calculateCompatibilityScoreTrips(ownTrip, candidate.trip, currentUser,
                                        candidate.creator).score)

\* the paginated answer of both routes
paginate(list, page, limit) ==
  LET startIndex == Mul(Sub(QueryNumber(page, 1), Num(1)), QueryNumber(limit, 10))
      endIndex == Add(startIndex, QueryInt(limit, 10))
  IN [status |-> 200, sorted |-> list, matches |-> slice(list, startIndex, endIndex),
      total |-> Len(list)]

EmptyResponse(status) == [status |-> status, sorted |-> <<>>, matches |-> <<>>, total |-> 0]

(***************************************************************************)
(* The explored inputs.  Each factor reads its own attributes of the two   *)
(* profiles and of the trip; an input is assembled from one choice per     *)
(* factor.  One factor at a time (the focus) ranges over all its bounded   *)
(* inputs while the others are all missing or all at a full match; the     *)
(* focus "mixed" combines, per factor, missing with full match.            *)
(***************************************************************************)
SeqsUpTo(S, n) == UNION {[1..k -> S] : k \in 0..n}

Maybe(S) == {Absent} \cup {Some(v) : v \in S}

Destinations == {"paris", "rome"}
Interests == {"food", "culture", "adventure"}
Languages == {"en", "fr"}
Styles == MatrixStyles \cup {"solo"}
Days == 0..MaxDay
Amounts == 1..MaxAmount

\* availability windows are proper ranges; a trip window may start and end
\* at the same instant
Windows == {w \in [start : Days, end : Days] : w.start < w.end}
TripWindows == {w \in [start : Days, end : Days] : w.start <= w.end}
\* a budget range carries an explicit max, a preferred amount, or neither
BudgetRanges == {b \in [min : Maybe(Amounts), max : Maybe(Amounts),
                        preferred : Maybe(Amounts)] :
                   ~(Has(b.max) /\ Has(b.preferred))}

\* the number of entries of an optional list
Entries(a) == IF Has(a) THEN Len(Val(a)) ELSE 0

\* the two lists of destinations hold at most MaxDestEntries entries together,
\* the two lists of availability windows at most MaxWindows windows together
DestRich == {d \in [req : Maybe(SeqsUpTo(Destinations, MaxDestEntries)),
                    rec : Maybe(SeqsUpTo(Destinations, MaxDestEntries))] :
               Entries(d.req) + Entries(d.rec) <= MaxDestEntries}
DateRich == {d \in [req : Maybe(SeqsUpTo(Windows, MaxWindows)),
                    rec : Maybe(SeqsUpTo(Windows, MaxWindows)),
                    trip : Maybe(TripWindows)] :
               Entries(d.req) + Entries(d.rec) <= MaxWindows}
InterestRich == [req : Maybe(SeqsUpTo(Interests, MaxTagLen)),
                 rec : Maybe(SeqsUpTo(Interests, MaxTagLen))]
BudgetRich == [req : Maybe(BudgetRanges), rec : Maybe(BudgetRanges),
               trip : Maybe(0..MaxAmount)]
StyleRich == [req : Maybe(Styles), rec : Maybe(Styles)]
LanguageRich == [req : Maybe(SeqsUpTo(Languages, MaxTagLen)),
                 rec : Maybe(SeqsUpTo(Languages, MaxTagLen))]

FiveDestinations == <<"paris", "rome", "tokyo", "lima", "oslo">>
WholeTrip == [start |-> 0, end |-> 2]
FullBudget == [min |-> Some(1), max |-> Some(3), preferred |-> Absent]

NarrowBudget == [min |-> Some(1), max |-> Some(2), preferred |-> Absent]

DestCoarse ==
  [missing |-> [req |-> Absent, rec |-> Absent],
   full |-> [req |-> Some(FiveDestinations), rec |-> Some(FiveDestinations)],
   mismatch |-> [req |-> Some(<<"paris">>), rec |-> Some(<<"rome">>)]]
DateCoarse ==
  [missing |-> [req |-> Absent, rec |-> Absent, trip |-> Absent],
   full |-> [req |-> Some(<<WholeTrip>>), rec |-> Some(<<WholeTrip>>),
             trip |-> Some(WholeTrip)],
   mismatch |-> [req |-> Some(<<[start |-> 0, end |-> 1]>>),
                 rec |-> Some(<<[start |-> 0, end |-> 1]>>),
                 trip |-> Some([start |-> 1, end |-> 2])]]
InterestCoarse ==
  [missing |-> [req |-> Absent, rec |-> Absent],
   full |-> [req |-> Some(<<"food", "culture">>), rec |-> Some(<<"culture", "food">>)],
   mismatch |-> [req |-> Some(<<"food">>), rec |-> Some(<<"culture">>)]]
BudgetCoarse ==
  [missing |-> [req |-> Absent, rec |-> Absent, trip |-> Absent],
   full |-> [req |-> Some(FullBudget), rec |-> Some(FullBudget), trip |-> Some(2)],
   mismatch |-> [req |-> Some(NarrowBudget), rec |-> Some(NarrowBudget),
                 trip |-> Some(40)]]
StyleCoarse ==
  [missing |-> [req |-> Absent, rec |-> Absent],
   full |-> [req |-> Some("luxury"), rec |-> Some("luxury")],
   mismatch |-> [req |-> Some("budget"), rec |-> Some("luxury")]]
LanguageCoarse ==
  [missing |-> [req |-> Absent, rec |-> Absent],
   full |-> [req |-> Some(<<"en">>), rec |-> Some(<<"en", "fr">>)],
   mismatch |-> [req |-> Some(<<"en">>), rec |-> Some(<<"fr">>)]]

Contexts == {"missing", "full", "mismatch"}

\* the choices of one factor: all of rich under its focus, else its coarse
\* choice for the context (any of the three under the focus "mixed")
Pick(focus, f, rich, coarse, context) ==
  IF focus = f THEN rich
  ELSE IF focus = "mixed" THEN {coarse[k] : k \in Contexts}
  ELSE {coarse[context]}

Choices(focus, context) ==
  [dest : Pick(focus, "destinationMatch", DestRich, DestCoarse, context),
   date : Pick(focus, "dateOverlap", DateRich, DateCoarse, context),
   interest : Pick(focus, "interestSimilarity", InterestRich, InterestCoarse, context),
   budget : Pick(focus, "budgetCompatibility", BudgetRich, BudgetCoarse, context),
   style : Pick(focus, "travelStyleMatch", StyleRich, StyleCoarse, context),
   language : Pick(focus, "languageMatch", LanguageRich, LanguageCoarse, context)]

Requester(c) ==
  [preferredDestinations |-> c.dest.req, availableDates |-> c.date.req,
   interests |-> c.interest.req, budgetRange |-> c.budget.req,
   travelStyle |-> c.style.req, languages |-> c.language.req]

Recipient(c) ==
  [preferredDestinations |-> c.dest.rec, availableDates |-> c.date.rec,
   interests |-> c.interest.rec, budgetRange |-> c.budget.rec,
   travelStyle |-> c.style.rec, languages |-> c.language.rec]

Trip(c) == [dates |-> c.date.trip, budget |-> c.budget.trip]

CoarseChoice(context) ==
  [dest |-> DestCoarse[context], date |-> DateCoarse[context],
   interest |-> InterestCoarse[context], budget |-> BudgetCoarse[context],
   style |-> StyleCoarse[context], language |-> LanguageCoarse[context]]

(***************************************************************************)
(* The explored pairs of trips.  Each term of the trip-vs-trip score reads *)
(* its own fields; as above one term at a time ranges over all its bounded *)
(* inputs while the others are in a coarse context.                        *)
(***************************************************************************)
TripDestinations == {<<"p", "a">>, <<"P", "A">>, <<"p">>, <<"r">>, <<>>}

TripBudgets == 0..MaxAmount

TripStyleLists == SeqsUpTo({"budget", "luxury"}, MaxTagLen)

TripTerms == {"destination", "dates", "budget", "interests", "style"}

TripDestRich == [user : TripDestinations, other : TripDestinations]

TripDateRich == [user : [startDate : Days, endDate : Days],
                 other : [startDate : Days, endDate : Days]]

TripBudgetRich == [user : TripBudgets, other : TripBudgets]

TripInterestRich == [user : SeqsUpTo(Interests, MaxTagLen),
                     other : SeqsUpTo(Interests, MaxTagLen)]

TripStyleRich == [user : Maybe(TripStyleLists), other : Maybe(TripStyleLists)]

TripContexts == {"same", "partial", "different"}

TripDestCoarse ==
  [same |-> [user |-> <<"p", "a">>, other |-> <<"p", "a">>],
   partial |-> [user |-> <<"P", "A">>, other |-> <<"p">>],
   different |-> [user |-> <<"p", "a">>, other |-> <<"r">>]]
TripDateCoarse ==
  [same |-> [user |-> [startDate |-> 0, endDate |-> 2],
             other |-> [startDate |-> 0, endDate |-> 2]],
   partial |-> [user |-> [startDate |-> 0, endDate |-> 2],
                other |-> [startDate |-> 1, endDate |-> 2]],
   different |-> [user |-> [startDate |-> 0, endDate |-> 0],
                  other |-> [startDate |-> 1, endDate |-> 2]]]
TripBudgetCoarse ==
  [same |-> [user |-> 2, other |-> 2],
   partial |-> [user |-> 2, other |-> 3],
   different |-> [user |-> 1, other |-> 3]]
TripInterestCoarse ==
  [same |-> [user |-> <<"food", "culture">>, other |-> <<"culture", "food">>],
   partial |-> [user |-> <<"adventure", "food">>, other |-> <<"food", "culture">>],
   different |-> [user |-> <<"food">>, other |-> <<"culture">>]]
TripStyleCoarse ==
  [same |-> [user |-> Some(<<"budget">>), other |-> Some(<<"budget">>)],
   partial |-> [user |-> Some(<<"budget", "luxury">>), other |-> Some(<<"budget">>)],
   different |-> [user |-> Some(<<"budget">>), other |-> Absent]]

TripPick(focus, f, rich, coarse, context) ==
  IF focus = f THEN rich
  ELSE IF focus = "mixed" THEN {coarse[k] : k \in TripContexts}
  ELSE {coarse[context]}

TripChoices(focus, context) ==
  [destination : TripPick(focus, "destination", TripDestRich, TripDestCoarse, context),
   dates : TripPick(focus, "dates", TripDateRich, TripDateCoarse, context),
   budget : TripPick(focus, "budget", TripBudgetRich, TripBudgetCoarse, context),
   interests : TripPick(focus, "interests", TripInterestRich, TripInterestCoarse, context),
   style : TripPick(focus, "style", TripStyleRich, TripStyleCoarse, context)]

TripCoarseChoice(context) ==
  [destination |-> TripDestCoarse[context], dates |-> TripDateCoarse[context],
   budget |-> TripBudgetCoarse[context], interests |-> TripInterestCoarse[context],
   style |-> TripStyleCoarse[context]]

UserTrip(c) ==
  [destination |-> c.destination.user, startDate |-> c.dates.user.startDate,
   endDate |-> c.dates.user.endDate, budget |-> c.budget.user,
   interests |-> c.interests.user]

OtherTrip(c) ==
  [destination |-> c.destination.other, startDate |-> c.dates.other.startDate,
   endDate |-> c.dates.other.endDate, budget |-> c.budget.other,
   interests |-> c.interests.other]

User(c) == [travelStyle |-> c.style.user]

OtherUser(c) == [travelStyle |-> c.style.other]

(***************************************************************************)
(* The explored requests of the two list routes: the current user and, for *)
(* discover, the user's own trip; the candidate trips the query of the     *)
(* route finds, each with its creator; the values of the query string.     *)
(***************************************************************************)
MaxPool == 3

CurrentUser == Requester(CoarseChoice("full"))

Mix(dest, date, interest, rest) ==
  [dest |-> DestCoarse[dest], date |-> DateCoarse[date],
   interest |-> InterestCoarse[interest], budget |-> BudgetCoarse[rest],
   style |-> StyleCoarse[rest], language |-> LanguageCoarse[rest]]

\* a candidate whose trip has no length, with availability on both sides
NoLengthChoice ==
  [CoarseChoice("missing") EXCEPT
     !.date = [req |-> Some(<<WholeTrip>>), rec |-> Some(<<WholeTrip>>),
               trip |-> Some([start |-> 0, end |-> 0])]]

PotentialChoices ==
  {CoarseChoice("missing"), CoarseChoice("full"), NoLengthChoice,
   Mix("missing", "full", "missing", "missing"),
   Mix("full", "missing", "missing", "missing"),
   Mix("full", "missing", "full", "missing")}

PotentialCandidates ==
  {[creator |-> Recipient(c), trip |-> Trip(c), existingMatch |-> e] :
     c \in PotentialChoices, e \in BOOLEAN}

OwnTrips ==
  {UserTrip(TripCoarseChoice("same")),
   [UserTrip(TripCoarseChoice("same")) EXCEPT !.budget = 0]}

OwnTripUser == User(TripCoarseChoice("same"))

DiscoverCandidate(destination, startDate, endDate, budget, interests, travelStyle) ==
  [trip |-> [destination |-> destination, startDate |-> startDate,
             endDate |-> endDate, budget |-> budget, interests |-> interests],
   creator |-> [travelStyle |-> travelStyle]]

DiscoverCandidates ==
  {DiscoverCandidate(<<"p", "a">>, 0, 2, 2, <<"culture", "food">>, Some(<<"budget">>)),
   DiscoverCandidate(<<"P">>, 2, 2, 0, <<"food", "culture">>, Absent),
   DiscoverCandidate(<<"r">>, 0, 2, 2, <<"food">>, Some(<<"budget">>)),
   DiscoverCandidate(<<"r">>, 1, 2, 3, <<"adventure">>, Absent),
   DiscoverCandidate(<<"p", "a">>, 1, 2, 2, <<"adventure">>, Absent),
   DiscoverCandidate(<<"r">>, 2, 2, 0, <<>>, Absent)}

Paging == {[page |-> Absent, limit |-> Absent],
           [page |-> Some(<<"2">>), limit |-> Some(<<"1">>)]}

MinScores == Maybe({<<"4", "0">>, <<"5", "8">>, <<"a", "b", "c">>, <<>>})

\* whose trip the tripId of a discover request names
TripIds == {"own", "foreign", "unknown"}

PotentialQueries ==
  {[route |-> "potential", tripId |-> "own", userTrips |-> n, page |-> p.page,
    limit |-> p.limit, minScore |-> Absent] : n \in 0..1, p \in Paging}

DiscoverQueries ==
  {[route |-> "discover", tripId |-> t, userTrips |-> 1, page |-> p.page,
    limit |-> p.limit, minScore |-> m] : t \in TripIds, p \in Paging, m \in MinScores}

NoQuery == [route |-> "none", tripId |-> "own", userTrips |-> 0, page |-> Absent,
            limit |-> Absent, minScore |-> Absent]

(***************************************************************************)
(* State: the arguments of one call of calculateCompatibilityScore and,    *)
(* once it has returned, its result.                                       *)
(***************************************************************************)
VARIABLES requester, recipient, trip, result, pc, calls

(***************************************************************************)
(* The arguments and the result of one call of the trip-vs-trip            *)
(* calculateCompatibilityScore.                                            *)
(***************************************************************************)
VARIABLES userTrip, otherTrip, user, otherUser, tripResult

tripVars == <<userTrip, otherTrip, user, otherUser, tripResult>>

(***************************************************************************)
(* One request to a list route: the candidate trips found for              *)
(* GET /potential, those found for GET /discover, the request and, once it *)
(* is served, the response.                                                *)
(***************************************************************************)
VARIABLES otherTrips, discoverTrips, query, response

routeVars == <<otherTrips, discoverTrips, query, response>>

(***************************************************************************)
(* The collections behind the match, chat and swipe routes: the Match      *)
(* documents, the ChatRoom documents, the Message documents and the Trip   *)
(* documents; the answer to the last request; the requests in progress.    *)
(***************************************************************************)
VARIABLES matchDocs, chatRooms, messages, tripDocs, reply, inflight

dbVars == <<matchDocs, chatRooms, messages, tripDocs, reply, inflight>>

vars == <<requester, recipient, trip, result, pc, calls, tripVars, routeVars, dbVars>>

\* the collections are empty and no request is made
NoStore ==
  /\ matchDocs = <<>>
  /\ chatRooms = <<>>
  /\ messages = <<>>
  /\ tripDocs = <<>>
  /\ reply = Absent
  /\ inflight = <<>>

\* no request to a list route is made
NoRequest ==
  /\ otherTrips = <<>>
  /\ discoverTrips = <<>>
  /\ query = NoQuery
  /\ response = Absent

\* no trip-vs-trip call is made
NoTripCall ==
  /\ userTrip = UserTrip(TripCoarseChoice("same"))
  /\ otherTrip = OtherTrip(TripCoarseChoice("same"))
  /\ user = User(TripCoarseChoice("same"))
  /\ otherUser = OtherUser(TripCoarseChoice("same"))
  /\ tripResult = Absent

(***************************************************************************)
(* Several calls in flight.  Every call owns the `factors` object it       *)
(* creates on entry and fills it block by block; the calls are interleaved *)
(* between blocks, which covers every order in which the event loop or     *)
(* worker threads can run them.                                            *)
(***************************************************************************)
Calls == 1..MaxCalls

Args(c) == [requester |-> Requester(c), recipient |-> Recipient(c), trip |-> Trip(c)]

CallInputs == {Args(CoarseChoice(k)) : k \in Contexts}

NoScore == [score |-> NaN, factors |-> InitialFactors]

IdleCall == [args |-> Args(CoarseChoice("missing")), factors |-> InitialFactors,
             at |-> "idle", returned |-> NoScore]

Init ==
  /\ \E focus \in FactorNames \cup {"mixed"}, context \in Contexts :
       \E c \in Choices(focus, context) :
         /\ requester = Requester(c)
         /\ recipient = Recipient(c)
         /\ trip = Trip(c)
  /\ result = Absent
  /\ pc = "call"
  /\ calls = [c \in Calls |-> IdleCall]
  /\ NoTripCall
  /\ NoRequest
  /\ NoStore

\* the call runs to completion and returns {score, factors}
Score ==
  /\ pc = "call"
  /\ result' = Some(calculateCompatibilityScore(requester, recipient, trip))
  /\ pc' = "done"
  /\ UNCHANGED <<requester, recipient, trip, calls, tripVars, routeVars, dbVars>>

Next == Score

Spec == Init /\ [][Next]_vars

\* the value the block of factor f assigns
FactorBlock(f, args) ==
  CASE f = "destinationMatch" -> destinationMatch(args.requester, args.recipient)
    [] f = "dateOverlap" -> dateOverlap(args.requester, args.recipient, args.trip)
    [] f = "interestSimilarity" -> interestSimilarity(args.requester, args.recipient)
    [] f = "budgetCompatibility" ->
         budgetCompatibility(args.requester, args.recipient, args.trip)
    [] f = "travelStyleMatch" -> travelStyleMatch(args.requester, args.recipient)
    [] f = "languageMatch" -> languageMatch(args.requester, args.recipient)

\* all calls would write to the object of the first call
StoreShared(cs, c, f, v) == [cs EXCEPT ![1].factors[f] = v]

\* `factors.f = v` in call c: the object is the one call c created
Store(cs, c, f, v) == [cs EXCEPT ![c].factors[f] = v]

\* the position after the block of factor f
After(f) ==
  LET i == CHOOSE k \in 1..Len(FactorKeys) : FactorKeys[k] = f
  IN IF i = Len(FactorKeys) THEN "return" ELSE FactorKeys[i + 1]

\* call c is entered: const factors = {...all 0}
Begin(c) ==
  /\ calls[c].at = "idle"
  /\ \E args \in CallInputs :
       calls' = [calls EXCEPT ![c] = [args |-> args, factors |-> InitialFactors,
                                      at |-> FactorKeys[1], returned |-> NoScore]]
  /\ UNCHANGED <<requester, recipient, trip, result, pc, tripVars, routeVars, dbVars>>

\* call c runs its next factor block
Block(c) ==
  /\ calls[c].at \in FactorNames
  /\ calls' = [Store(calls, c, calls[c].at, FactorBlock(calls[c].at, calls[c].args))
                 EXCEPT ![c].at = After(calls[c].at)]
  /\ UNCHANGED <<requester, recipient, trip, result, pc, tripVars, routeVars, dbVars>>

\* call c sums its factors and returns {score, factors}
Return(c) ==
  /\ calls[c].at = "return"
  /\ calls' = [calls EXCEPT
                 ![c].returned = [score |-> MathRound(totalScore(calls[c].factors, FactorKeys)),
                                  factors |-> calls[c].factors],
                 ![c].at = "returned"]
  /\ UNCHANGED <<requester, recipient, trip, result, pc, tripVars, routeVars, dbVars>>

InitCalls ==
  /\ requester = IdleCall.args.requester
  /\ recipient = IdleCall.args.recipient
  /\ trip = IdleCall.args.trip
  /\ result = Absent
  /\ pc = "call"
  /\ calls = [c \in Calls |-> IdleCall]
  /\ NoTripCall
  /\ NoRequest
  /\ NoStore

NextCalls == \E c \in Calls : Begin(c) \/ Block(c) \/ Return(c)

SpecCalls == InitCalls /\ [][NextCalls]_vars

\* no call of the profile scorer is made
NoCall ==
  /\ requester = IdleCall.args.requester
  /\ recipient = IdleCall.args.recipient
  /\ trip = IdleCall.args.trip
  /\ result = Absent
  /\ pc = "call"
  /\ calls = [c \in Calls |-> IdleCall]

InitTrips ==
  /\ NoCall
  /\ \E focus \in TripTerms \cup {"mixed"}, context \in TripContexts :
       \E c \in TripChoices(focus, context) :
         /\ userTrip = UserTrip(c)
         /\ otherTrip = OtherTrip(c)
         /\ user = User(c)
         /\ otherUser = OtherUser(c)
  /\ tripResult = Absent
  /\ NoRequest
  /\ NoStore

\* the trip-vs-trip call runs to completion and returns {score, factors}
ScoreTrips ==
  /\ tripResult = Absent
  /\ tripResult' = Some(calculateCompatibilityScoreTrips(userTrip, otherTrip,
                                                         user, otherUser))
  /\ UNCHANGED <<requester, recipient, trip, result, pc, calls,
                 userTrip, otherTrip, user, otherUser, routeVars, dbVars>>

NextTrips == ScoreTrips

SpecTrips == InitTrips /\ [][NextTrips]_vars

TripsDone == tripResult # Absent

TripRes == Val(tripResult)

InitRoutes ==
  /\ NoStore
  /\ requester = CurrentUser
  /\ recipient = IdleCall.args.recipient
  /\ trip = IdleCall.args.trip
  /\ result = Absent
  /\ pc = "call"
  /\ calls = [c \in Calls |-> IdleCall]
  /\ user = OwnTripUser
  /\ otherTrip = OtherTrip(TripCoarseChoice("same"))
  /\ otherUser = OtherUser(TripCoarseChoice("same"))
  /\ tripResult = Absent
  /\ response = Absent
  /\ \/ /\ query \in PotentialQueries
        /\ otherTrips \in SeqsUpTo(PotentialCandidates, MaxPool)
        /\ query.userTrips = 0 => otherTrips = <<>>
        /\ discoverTrips = <<>>
        /\ userTrip = UserTrip(TripCoarseChoice("same"))
     \/ /\ query \in DiscoverQueries
        /\ discoverTrips \in SeqsUpTo(DiscoverCandidates, MaxPool)
        /\ query.tripId # "own" => discoverTrips = <<>>
        /\ otherTrips = <<>>
        /\ userTrip \in OwnTrips

\* GET /potential: every candidate without an existing match is scored and
\* kept from 30 on, the list is sorted by score and a page of it returned
GetPotential ==
  /\ query.route = "potential"
  /\ response = Absent
  /\ response' =
       Some(IF query.userTrips = 0 THEN EmptyResponse(200)
            ELSE LET scores == [i \in 1..Len(otherTrips) |->
                                 potentialScore(requester, otherTrips[i])]
                     potentialMatches == collect(scores, Num(30))
                 IN paginate(sort(potentialMatches), query.page, query.limit))
  /\ UNCHANGED <<requester, recipient, trip, result, pc, calls, tripVars,
                 otherTrips, discoverTrips, query, dbVars>>

\* GET /discover: the trip must exist and be the caller's; every candidate
\* is scored and kept from minScore on, the list is sorted by score and a
\* page of it returned
GetDiscover ==
  /\ query.route = "discover"
  /\ response = Absent
  /\ response' =
       Some(IF query.tripId = "unknown" THEN EmptyResponse(404)
            ELSE IF query.tripId = "foreign" THEN EmptyResponse(403)
            ELSE LET scores == [i \in 1..Len(discoverTrips) |->
                                 discoverScore(userTrip, user, discoverTrips[i])]
                     matches == collect(scores, QueryNumber(query.minScore, 50))
                 IN paginate(sort(matches), query.page, query.limit))
  /\ UNCHANGED <<requester, recipient, trip, result, pc, calls, tripVars,
                 otherTrips, discoverTrips, query, dbVars>>

NextRoutes == GetPotential \/ GetDiscover

SpecRoutes == InitRoutes /\ [][NextRoutes]_vars

Served == response # Absent

Resp == Val(response)

(***************************************************************************)
(* routes/matches (part_003): POST /request, PUT /:matchId/respond and     *)
(* DELETE /:matchId, each executed as a whole.  A Match document is        *)
(* identified by its position in matchDocs, a ChatRoom document by its     *)
(* position in chatRooms.                                                  *)
(***************************************************************************)
MaxMatches == 2

Users == {"ann", "bob", "cy"}

\* the ids a request can carry: "ghost" is the id of no user, "gone" of no trip
UserIds == Users \cup {"ghost"}

TripKeys == {"t1", "t2", "t3", "gone"}

MatchIds == 1..(MaxMatches + 1)

\* the users who send match requests, responses and cancellations
Callers == {"ann", "bob"}

\* the profile AIService reads for a user
Profile(u) ==
  CASE u = "ann" -> Requester(CoarseChoice("full"))
    [] u = "bob" -> Recipient(CoarseChoice("full"))
    [] u = "cy" -> Recipient(CoarseChoice("mismatch"))

NewTrip(creator, openToPartners, dates, budget) ==
  [creator |-> creator, openToPartners |-> openToPartners, dates |-> dates,
   budget |-> budget, participants |-> <<>>, swipes |-> <<>>, matches |-> <<>>]

\* t1 is open, t2 is open and has no length, t3 is not open to partners
StoredTrips ==
  [t \in {"t1", "t2", "t3"} |->
     CASE t = "t1" -> NewTrip("bob", TRUE, Some(WholeTrip), Some(2))
       [] t = "t2" -> NewTrip("cy", TRUE, Some([start |-> 0, end |-> 0]), Some(2))
       [] t = "t3" -> NewTrip("bob", FALSE, Some(WholeTrip), Some(2))]

Outcome(status, message) == [status |-> status, message |-> message]

Answer(op, outcome) ==
  Some([op |-> op, status |-> outcome.status, message |-> outcome.message])

\* matchSchema: compatibilityScore is a Number with min 0 and max 100
ScoreValid(score) == ~IsNaN(score) /\ Le(Num(0), score) /\ Le(score, Num(100))

\* Match.findOne({requester, recipient, trip})
existingMatch(docs, requesterId, recipientId, tripId) ==
  \E i \in 1..Len(docs) :
    /\ docs[i].requester = requesterId
    /\ docs[i].recipient = recipientId
    /\ docs[i].trip = tripId

requestScore(requesterId, recipientId, tripDoc) ==
  calculateCompatibilityScore(Profile(requesterId), Profile(recipientId),
                              [dates |-> tripDoc.dates, budget |-> tripDoc.budget]).score

\* the status POST /request answers with
requestStatusNoLookup(docs, trips, requesterId, recipientId, tripId) ==
  IF ~Has(recipientId) \/ ~Has(tripId)
    THEN Outcome(400, "Recipient ID and trip ID are required")
  ELSE IF Val(recipientId) = requesterId
    THEN Outcome(400, "Cannot send match request to yourself")
  ELSE IF Val(tripId) \notin DOMAIN trips
    THEN Outcome(404, "The specified trip does not exist")
  ELSE IF ~trips[Val(tripId)].openToPartners
    THEN Outcome(400, "This trip is not open to partners")
  ELSE IF Val(recipientId) \notin Users
    THEN Outcome(404, "The specified user does not exist")
  ELSE IF ~ScoreValid(requestScore(requesterId, Val(recipientId), trips[Val(tripId)]))
    THEN Outcome(500, "An error occurred while sending match request")
  ELSE Outcome(201, "Match request sent successfully")

requestStatus(docs, trips, requesterId, recipientId, tripId) ==
  IF ~Has(recipientId) \/ ~Has(tripId)
    THEN Outcome(400, "Recipient ID and trip ID are required")
  ELSE IF Val(recipientId) = requesterId
    THEN Outcome(400, "Cannot send match request to yourself")
  ELSE IF Val(tripId) \notin DOMAIN trips
    THEN Outcome(404, "The specified trip does not exist")
  ELSE IF ~trips[Val(tripId)].openToPartners
    THEN Outcome(400, "This trip is not open to partners")
  ELSE IF Val(recipientId) \notin Users
    THEN Outcome(404, "The specified user does not exist")
  ELSE IF existingMatch(docs, requesterId, Val(recipientId), Val(tripId))
    THEN Outcome(400, "A match request already exists for this trip")
  ELSE IF ~ScoreValid(requestScore(requesterId, Val(recipientId), trips[Val(tripId)]))
    THEN Outcome(500, "An error occurred while sending match request")
  ELSE Outcome(201, "Match request sent successfully")

NewMatch(requesterId, recipientId, tripId, score) ==
  [requester |-> requesterId, recipient |-> recipientId, trip |-> tripId,
   compatibilityScore |-> score, status |-> "pending", chatRoom |-> Absent,
   isActive |-> TRUE]

\* POST /request by `caller`
SendRequest(caller, recipientId, tripId) ==
  LET outcome == requestStatus(matchDocs, tripDocs, caller, recipientId, tripId)
  IN /\ outcome.status = 201 => Len(matchDocs) < MaxMatches
     /\ matchDocs' =
          IF outcome.status = 201
          THEN Append(matchDocs,
                      NewMatch(caller, Val(recipientId), Val(tripId),
                               requestScore(caller, Val(recipientId),
                                            tripDocs[Val(tripId)])))
          ELSE matchDocs
     /\ reply' = Answer("request", outcome)
     /\ UNCHANGED <<chatRooms, messages, tripDocs, inflight>>

\* the status PUT /:matchId/respond answers with
respondStatusAnyCaller(docs, userId, matchId, answer) ==
  IF answer \notin {"accepted", "rejected"}
    THEN Outcome(400, "Response must be either accepted or rejected")
  ELSE IF matchId \notin 1..Len(docs)
    THEN Outcome(404, "The specified match does not exist")
  ELSE IF docs[matchId].status # "pending"
    THEN Outcome(400, "This match has already been responded to")
  ELSE Outcome(200, IF answer = "accepted"
                    THEN "Match request accepted successfully"
                    ELSE "Match request rejected successfully")

respondStatus(docs, userId, matchId, answer) ==
  IF answer \notin {"accepted", "rejected"}
    THEN Outcome(400, "Response must be either accepted or rejected")
  ELSE IF matchId \notin 1..Len(docs)
    THEN Outcome(404, "The specified match does not exist")
  ELSE IF docs[matchId].recipient # userId
    THEN Outcome(403, "You can only respond to matches sent to you")
  ELSE IF docs[matchId].status # "pending"
    THEN Outcome(400, "This match has already been responded to")
  ELSE Outcome(200, IF answer = "accepted"
                    THEN "Match request accepted successfully"
                    ELSE "Match request rejected successfully")

NewChatRoomWithoutRequester(match, matchId) ==
  [participants |-> <<match.recipient>>, trip |-> match.trip,
   match |-> matchId, unreadCount |-> <<>>]

NewChatRoom(match, matchId) ==
  [participants |-> <<match.requester, match.recipient>>, trip |-> match.trip,
   match |-> matchId, unreadCount |-> <<>>]

\* `if (!participants.includes(requester)) participants.push(requester)`
addParticipant(tripDoc, userId) ==
  IF userId \in Range(tripDoc.participants) THEN tripDoc
  ELSE [tripDoc EXCEPT !.participants = Append(@, userId)]

\* PUT /:matchId/respond by `caller`
Respond(caller, matchId, answer) ==
  LET outcome == respondStatus(matchDocs, caller, matchId, answer)
      match == matchDocs[matchId]
  IN /\ reply' = Answer("respond", outcome)
     /\ IF outcome.status = 200 /\ answer = "accepted"
        THEN /\ chatRooms' = Append(chatRooms, NewChatRoom(match, matchId))
             /\ tripDocs' = [tripDocs EXCEPT ![match.trip] =
                                addParticipant(@, match.requester)]
             /\ matchDocs' = [matchDocs EXCEPT ![matchId].status = answer,
                                               ![matchId].chatRoom =
                                                  Some(Len(chatRooms) + 1)]
        ELSE /\ matchDocs' = IF outcome.status = 200
                             THEN [matchDocs EXCEPT ![matchId].status = answer]
                             ELSE matchDocs
             /\ UNCHANGED <<chatRooms, tripDocs>>
     /\ UNCHANGED <<messages, inflight>>

\* the status DELETE /:matchId answers with
cancelStatusAlways(docs, userId, matchId) ==
  IF matchId \notin 1..Len(docs)
    THEN Outcome(404, "The specified match does not exist")
  ELSE IF docs[matchId].requester # userId
    THEN Outcome(403, "You can only cancel your own match requests")
  ELSE Outcome(200, "Match request cancelled successfully")

cancelStatus(docs, userId, matchId) ==
  IF matchId \notin 1..Len(docs)
    THEN Outcome(404, "The specified match does not exist")
  ELSE IF docs[matchId].requester # userId
    THEN Outcome(403, "You can only cancel your own match requests")
  ELSE IF docs[matchId].status = "accepted"
    THEN Outcome(400, "Cannot cancel an accepted match request")
  ELSE Outcome(200, "Match request cancelled successfully")

\* DELETE /:matchId by `caller`
Cancel(caller, matchId) ==
  LET outcome == cancelStatus(matchDocs, caller, matchId)
  IN /\ matchDocs' = IF outcome.status = 200
                     THEN [matchDocs EXCEPT ![matchId].status = "cancelled",
                                            ![matchId].isActive = FALSE]
                     ELSE matchDocs
     /\ reply' = Answer("cancel", outcome)
     /\ UNCHANGED <<chatRooms, messages, tripDocs, inflight>>

scoreVars == <<requester, recipient, trip, result, pc, calls>>

InitMatches ==
  /\ NoCall
  /\ NoTripCall
  /\ NoRequest
  /\ matchDocs = <<>>
  /\ chatRooms = <<>>
  /\ messages = <<>>
  /\ tripDocs = StoredTrips
  /\ reply = Absent
  /\ inflight = <<>>

NextMatches ==
  /\ UNCHANGED <<scoreVars, tripVars, routeVars>>
  /\ \E caller \in Callers :
       \/ \E recipientId \in Maybe(UserIds), tripId \in Maybe(TripKeys) :
            SendRequest(caller, recipientId, tripId)
       \/ \E matchId \in MatchIds, answer \in {"accepted", "rejected", "maybe"} :
            Respond(caller, matchId, answer)
       \/ \E matchId \in MatchIds : Cancel(caller, matchId)

SpecMatches == InitMatches /\ [][NextMatches]_vars

(***************************************************************************)
(* routes/matches.js: POST /swipe, executed as a whole.  The handler loads *)
(* both trips first; the mutual-like check reads the target trip as it was *)
(* loaded.                                                                 *)
(***************************************************************************)
MaxSwipes == 2

SwipeActions == {"like", "pass", "superlike"}

\* `swipes.find(swipe => swipe.targetTrip.toString() === targetTripId)`
existingSwipe(tripDoc, targetTripId) ==
  \E i \in 1..Len(tripDoc.swipes) : tripDoc.swipes[i].targetTrip = targetTripId

\* `swipes.find(swipe => swipe.targetTrip.toString() === tripId &&
\*               swipe.action === 'like')`
mutualLikeAnyAction(targetDoc, tripId) ==
  \E i \in 1..Len(targetDoc.swipes) : targetDoc.swipes[i].targetTrip = tripId

mutualLike(targetDoc, tripId) ==
  \E i \in 1..Len(targetDoc.swipes) :
    /\ targetDoc.swipes[i].targetTrip = tripId
    /\ targetDoc.swipes[i].action = "like"

\* the status POST /swipe answers with
swipeStatusNoLookup(trips, userId, tripId, targetTripId, action) ==
  IF action \notin {"like", "pass"}
    THEN Outcome(400, "Invalid action. Must be like or pass")
  ELSE IF tripId \notin DOMAIN trips \/ targetTripId \notin DOMAIN trips
    THEN Outcome(404, "Trip not found")
  ELSE IF trips[tripId].creator # userId
    THEN Outcome(403, "Not authorized")
  ELSE Outcome(200, "Swipe recorded")

swipeStatus(trips, userId, tripId, targetTripId, action) ==
  IF action \notin {"like", "pass"}
    THEN Outcome(400, "Invalid action. Must be like or pass")
  ELSE IF tripId \notin DOMAIN trips \/ targetTripId \notin DOMAIN trips
    THEN Outcome(404, "Trip not found")
  ELSE IF trips[tripId].creator # userId
    THEN Outcome(403, "Not authorized")
  ELSE IF existingSwipe(trips[tripId], targetTripId)
    THEN Outcome(400, "Already swiped on this trip")
  ELSE Outcome(200, "Swipe recorded")

pushSwipe(tripDoc, targetTripId, action) ==
  [tripDoc EXCEPT !.swipes = Append(@, [targetTrip |-> targetTripId,
                                        action |-> action])]

pushMatch(tripDoc, matchedTripId) ==
  [tripDoc EXCEPT !.matches = Append(@, [matchedTrip |-> matchedTripId])]

SwipeAnswer(outcome, isMatch) ==
  Some([op |-> "swipe", status |-> outcome.status,
        message |-> IF isMatch THEN "It's a match!" ELSE outcome.message,
        isMatch |-> isMatch])

\* the number of swipe records stored
RECURSIVE SwipeCount(_, _)
SwipeCount(trips, keys) ==
  IF keys = {} THEN 0
  ELSE LET k == CHOOSE x \in keys : TRUE
       IN Len(trips[k].swipes) + SwipeCount(trips, keys \ {k})

\* POST /swipe by `caller`
Swipe(caller, tripId, targetTripId, action) ==
  LET outcome == swipeStatus(tripDocs, caller, tripId, targetTripId, action)
      isMatch == /\ outcome.status = 200
                 /\ action = "like"
                 /\ mutualLike(tripDocs[targetTripId], tripId)
      swiped == [tripDocs EXCEPT ![tripId] = pushSwipe(@, targetTripId, action)]
  IN /\ outcome.status = 200 => SwipeCount(tripDocs, DOMAIN tripDocs) < MaxSwipes
     /\ reply' = IF outcome.status = 200 THEN SwipeAnswer(outcome, isMatch)
                 ELSE Answer("swipe", outcome)
     /\ tripDocs' =
          IF outcome.status # 200 THEN tripDocs
          ELSE IF ~isMatch THEN swiped
          ELSE [swiped EXCEPT ![targetTripId] = pushMatch(@, tripId),
                              ![tripId] = pushMatch(@, targetTripId)]
     /\ UNCHANGED <<matchDocs, chatRooms, messages, inflight>>

InitSwipe ==
  /\ NoCall
  /\ NoTripCall
  /\ NoRequest
  /\ matchDocs = <<>>
  /\ chatRooms = <<>>
  /\ messages = <<>>
  /\ tripDocs = StoredTrips
  /\ reply = Absent
  /\ inflight = <<>>

NextSwipe ==
  /\ UNCHANGED <<scoreVars, tripVars, routeVars>>
  /\ \E caller \in Users, tripId \in TripKeys, targetTripId \in TripKeys,
        action \in SwipeActions :
       Swipe(caller, tripId, targetTripId, action)

SpecSwipe == InitSwipe /\ [][NextSwipe]_vars

(***************************************************************************)
(* routes/matches (part_003): POST and GET /chat-rooms/:roomId/messages,   *)
(* each executed as a whole, on the chat rooms of two accepted matches.    *)
(***************************************************************************)
MaxMessages == 2

RoomIds == 1..3

Contents == {Absent, Some("hi")}

MessageTypes == {"text", "image"}

AcceptedMatch(requesterId, recipientId, tripId, roomId) ==
  [NewMatch(requesterId, recipientId, tripId, Num(50))
     EXCEPT !.status = "accepted", !.chatRoom = Some(roomId)]

StoredMatches ==
  <<AcceptedMatch("ann", "bob", "t1", 1), AcceptedMatch("cy", "bob", "t3", 2)>>

StoredRooms ==
  <<NewChatRoom(StoredMatches[1], 1), NewChatRoom(StoredMatches[2], 2)>>

\* `chatRoom.unreadCount.get(userId) || 0`
unreadOf(room, userId) ==
  IF userId \in DOMAIN room.unreadCount THEN room.unreadCount[userId] ELSE 0

\* `chatRoom.unreadCount.set(userId, count)`
setUnread(room, userId, count) ==
  [room EXCEPT !.unreadCount = (userId :> count) @@ @]

\* the forEach over the participants of the room
RECURSIVE incrementUnreadOfAll(_, _, _)
incrementUnreadOfAll(room, userId, i) ==
  IF i > Len(room.participants) THEN room
  ELSE incrementUnreadOfAll(
         setUnread(room, room.participants[i],
                   unreadOf(room, room.participants[i]) + 1),
         userId, i + 1)

RECURSIVE incrementUnread(_, _, _)
incrementUnread(room, userId, i) ==
  IF i > Len(room.participants) THEN room
  ELSE incrementUnread(
         IF room.participants[i] # userId
         THEN setUnread(room, room.participants[i],
                        unreadOf(room, room.participants[i]) + 1)
         ELSE room,
         userId, i + 1)

\* the status POST /chat-rooms/:roomId/messages answers with; a message
\* without content fails the schema's `required` when it is saved
sendStatus(rooms, userId, roomId, content, messageType) ==
  IF ~Has(content) /\ messageType = "text"
    THEN Outcome(400, "Message content is required")
  ELSE IF roomId \notin 1..Len(rooms)
    THEN Outcome(404, "The specified chat room does not exist")
  ELSE IF userId \notin Range(rooms[roomId].participants)
    THEN Outcome(403, "You are not a participant in this chat room")
  ELSE IF ~Has(content)
    THEN Outcome(500, "An error occurred while sending message")
  ELSE Outcome(201, "Message sent successfully")

NewMessage(roomId, userId, content, messageType) ==
  [chatRoom |-> roomId, sender |-> userId, content |-> content,
   messageType |-> messageType, readBy |-> <<userId>>]

\* POST /chat-rooms/:roomId/messages by `caller`
SendMessage(caller, roomId, content, messageType) ==
  LET outcome == sendStatus(chatRooms, caller, roomId, content, messageType)
  IN /\ outcome.status = 201 => Len(messages) < MaxMessages
     /\ IF outcome.status = 201
        THEN /\ messages' = Append(messages, NewMessage(roomId, caller,
                                                        Val(content), messageType))
             /\ chatRooms' = [chatRooms EXCEPT ![roomId] =
                                 incrementUnread(@, caller, 1)]
        ELSE UNCHANGED <<messages, chatRooms>>
     /\ reply' = Answer("send", outcome)
     /\ UNCHANGED <<matchDocs, tripDocs, inflight>>

\* the status GET /chat-rooms/:roomId/messages answers with
fetchStatus(rooms, userId, roomId) ==
  IF roomId \notin 1..Len(rooms)
    THEN Outcome(404, "The specified chat room does not exist")
  ELSE IF userId \notin Range(rooms[roomId].participants)
    THEN Outcome(403, "You are not a participant in this chat room")
  ELSE Outcome(200, "")

\* Message.updateMany({chatRoom, sender: {$ne}, 'readBy.user': {$ne}},
\*                    {$push: {readBy}})
markRead(msgs, roomId, userId) ==
  [i \in 1..Len(msgs) |->
     IF /\ msgs[i].chatRoom = roomId
        /\ msgs[i].sender # userId
        /\ userId \notin Range(msgs[i].readBy)
     THEN [msgs[i] EXCEPT !.readBy = Append(@, userId)]
     ELSE msgs[i]]

\* GET /chat-rooms/:roomId/messages by `caller`
GetMessages(caller, roomId) ==
  LET outcome == fetchStatus(chatRooms, caller, roomId)
  IN /\ IF outcome.status = 200
        THEN /\ messages' = markRead(messages, roomId, caller)
             /\ chatRooms' = [chatRooms EXCEPT ![roomId] = setUnread(@, caller, 0)]
        ELSE UNCHANGED <<messages, chatRooms>>
     /\ reply' = Answer("fetch", outcome)
     /\ UNCHANGED <<matchDocs, tripDocs, inflight>>

InitChat ==
  /\ NoCall
  /\ NoTripCall
  /\ NoRequest
  /\ matchDocs = StoredMatches
  /\ chatRooms = StoredRooms
  /\ messages = <<>>
  /\ tripDocs = StoredTrips
  /\ reply = Absent
  /\ inflight = <<>>

NextChat ==
  /\ UNCHANGED <<scoreVars, tripVars, routeVars>>
  /\ \E caller \in Users, roomId \in RoomIds :
       \/ \E content \in Contents, messageType \in MessageTypes :
            SendMessage(caller, roomId, content, messageType)
       \/ GetMessages(caller, roomId)

SpecChat == InitChat /\ [][NextChat]_vars

(***************************************************************************)
(* PUT /:matchId/respond step by step.  The handler is an async function:  *)
(* between two awaits it runs alone, and at each await (Match.findById,    *)
(* chatRoom.save, match.trip.save, match.save) another request's steps can *)
(* run.  Each request in flight keeps the documents it loaded.             *)
(***************************************************************************)
MaxInflight == 2

PendingMatches == <<NewMatch("ann", "bob", "t1", Num(50))>>

NewRespond(caller, matchId, answer) ==
  [pc |-> "findById", caller |-> caller, matchId |-> matchId, answer |-> answer,
   match |-> Absent, trip |-> Absent]

\* the handler is entered; an invalid response is refused before any await
BeginRespond(caller, matchId, answer) ==
  /\ Len(inflight) < MaxInflight
  /\ IF answer \notin {"accepted", "rejected"}
     THEN /\ reply' = Answer("respond",
                             respondStatus(matchDocs, caller, matchId, answer))
          /\ UNCHANGED inflight
     ELSE /\ inflight' = Append(inflight, NewRespond(caller, matchId, answer))
          /\ UNCHANGED reply
  /\ UNCHANGED <<matchDocs, chatRooms, messages, tripDocs>>

\* `await Match.findById(matchId).populate(...)`, then the checks up to
\* `match.status = response`
FindMatch(i) ==
  LET r == inflight[i]
      outcome == respondStatus(matchDocs, r.caller, r.matchId, r.answer)
  IN /\ r.pc = "findById"
     /\ IF outcome.status # 200
        THEN /\ inflight' = [inflight EXCEPT ![i].pc = "done"]
             /\ reply' = Answer("respond", outcome)
        ELSE /\ inflight' =
                  [inflight EXCEPT
                     ![i].match = Some([matchDocs[r.matchId] EXCEPT
                                          !.status = r.answer]),
                     ![i].trip = Some(tripDocs[matchDocs[r.matchId].trip]),
                     ![i].pc = IF r.answer = "accepted" THEN "chatRoom.save"
                               ELSE "match.save"]
             /\ UNCHANGED reply
     /\ UNCHANGED <<matchDocs, chatRooms, messages, tripDocs>>

\* `await chatRoom.save()`, then `match.chatRoom = chatRoom._id` and the
\* look at the loaded trip's participants
SaveChatRoom(i) ==
  LET r == inflight[i]
      match == Val(r.match)
  IN /\ r.pc = "chatRoom.save"
     /\ chatRooms' = Append(chatRooms, NewChatRoom(match, r.matchId))
     /\ inflight' =
          [inflight EXCEPT
             ![i].match = Some([match EXCEPT !.chatRoom = Some(Len(chatRooms) + 1)]),
             ![i].pc = IF match.requester \in Range(Val(r.trip).participants)
                       THEN "match.save" ELSE "trip.save"]
     /\ UNCHANGED <<matchDocs, messages, tripDocs, reply>>

\* `match.trip.participants.push(requester); await match.trip.save()`
SaveTrip(i) ==
  LET r == inflight[i]
      match == Val(r.match)
  IN /\ r.pc = "trip.save"
     /\ tripDocs' = [tripDocs EXCEPT ![match.trip].participants =
                        Append(@, match.requester)]
     /\ inflight' = [inflight EXCEPT ![i].pc = "match.save"]
     /\ UNCHANGED <<matchDocs, chatRooms, messages, reply>>

\* `await match.save()` writes the fields the handler set, then the answer
SaveMatch(i) ==
  LET r == inflight[i]
      match == Val(r.match)
  IN /\ r.pc = "match.save"
     /\ matchDocs' = [matchDocs EXCEPT ![r.matchId].status = match.status,
                                       ![r.matchId].chatRoom = match.chatRoom]
     /\ inflight' = [inflight EXCEPT ![i].pc = "done"]
     /\ reply' = Answer("respond",
                        Outcome(200, IF r.answer = "accepted"
                                     THEN "Match request accepted successfully"
                                     ELSE "Match request rejected successfully"))
     /\ UNCHANGED <<chatRooms, messages, tripDocs>>

InitRespond ==
  /\ NoCall
  /\ NoTripCall
  /\ NoRequest
  /\ matchDocs = PendingMatches
  /\ chatRooms = <<>>
  /\ messages = <<>>
  /\ tripDocs = StoredTrips
  /\ reply = Absent
  /\ inflight = <<>>

NextRespond ==
  /\ UNCHANGED <<scoreVars, tripVars, routeVars>>
  /\ \/ \E caller \in Users, matchId \in MatchIds,
           answer \in {"accepted", "rejected", "maybe"} :
          BeginRespond(caller, matchId, answer)
     \/ \E i \in 1..Len(inflight) :
          \/ FindMatch(i)
          \/ SaveChatRoom(i)
          \/ SaveTrip(i)
          \/ SaveMatch(i)

SpecRespond == InitRespond /\ [][NextRespond]_vars

(***************************************************************************)
(* POST /swipe step by step: the handler's awaits are Trip.findById for    *)
(* the user's trip and for the target trip, userTrip.save() after the      *)
(* swipe is pushed, and targetTrip.save() and userTrip.save() after the    *)
(* match entries are pushed.  A save of a pushed entry appends it to the   *)
(* stored list.                                                            *)
(***************************************************************************)
SwipeKeys == {"t1", "t2", "gone"}

findById(trips, tripId) ==
  IF tripId \in DOMAIN trips THEN Some(trips[tripId]) ELSE Absent

NewSwipe(caller, tripId, targetTripId, action) ==
  [pc |-> "findById(tripId)", caller |-> caller, tripId |-> tripId,
   targetTripId |-> targetTripId, action |-> action,
   userTrip |-> Absent, targetTrip |-> Absent, status |-> 0, isMatch |-> FALSE]

\* the status of a request whose two trips are loaded
loadedStatus(r, target) ==
  IF ~Has(r.userTrip) \/ ~Has(target) THEN Outcome(404, "Trip not found")
  ELSE IF Val(r.userTrip).creator # r.caller THEN Outcome(403, "Not authorized")
  ELSE IF existingSwipe(Val(r.userTrip), r.targetTripId)
    THEN Outcome(400, "Already swiped on this trip")
  ELSE Outcome(200, "Swipe recorded")

\* the handler is entered; an invalid action is refused before any await
BeginSwipe(caller, tripId, targetTripId, action) ==
  /\ Len(inflight) < MaxInflight
  /\ IF action \notin {"like", "pass"}
     THEN /\ reply' = Answer("swipe",
                             swipeStatus(tripDocs, caller, tripId, targetTripId,
                                         action))
          /\ UNCHANGED inflight
     ELSE /\ inflight' = Append(inflight,
                                NewSwipe(caller, tripId, targetTripId, action))
          /\ UNCHANGED reply
  /\ UNCHANGED <<matchDocs, chatRooms, messages, tripDocs>>

\* `const userTrip = await Trip.findById(tripId)`
FindUserTrip(i) ==
  /\ inflight[i].pc = "findById(tripId)"
  /\ inflight' = [inflight EXCEPT
                    ![i].userTrip = findById(tripDocs, inflight[i].tripId),
                    ![i].pc = "findById(targetTripId)"]
  /\ UNCHANGED <<matchDocs, chatRooms, messages, tripDocs, reply>>

\* `const targetTrip = await Trip.findById(targetTripId)`, then the checks
\* and the push of the swipe record
FindTargetTrip(i) ==
  LET r == inflight[i]
      target == findById(tripDocs, r.targetTripId)
      outcome == loadedStatus(r, target)
  IN /\ r.pc = "findById(targetTripId)"
     /\ IF outcome.status # 200
        THEN /\ inflight' = [inflight EXCEPT ![i].pc = "done",
                                             ![i].status = outcome.status]
             /\ reply' = Answer("swipe", outcome)
        ELSE /\ inflight' = [inflight EXCEPT ![i].targetTrip = target,
                                             ![i].pc = "userTrip.save"]
             /\ UNCHANGED reply
     /\ UNCHANGED <<matchDocs, chatRooms, messages, tripDocs>>

\* `await userTrip.save()`, then the mutual-like check on the target trip
\* as it was loaded
SaveSwipe(i) ==
  LET r == inflight[i]
      isMatch == r.action = "like" /\ mutualLike(Val(r.targetTrip), r.tripId)
  IN /\ r.pc = "userTrip.save"
     /\ tripDocs' = [tripDocs EXCEPT ![r.tripId] =
                        pushSwipe(@, r.targetTripId, r.action)]
     /\ IF isMatch
        THEN /\ inflight' = [inflight EXCEPT ![i].pc = "targetTrip.save",
                                             ![i].isMatch = TRUE]
             /\ UNCHANGED reply
        ELSE /\ inflight' = [inflight EXCEPT ![i].pc = "done", ![i].status = 200]
             /\ reply' = SwipeAnswer(Outcome(200, "Swipe recorded"), FALSE)
     /\ UNCHANGED <<matchDocs, chatRooms, messages>>

\* `targetTrip.matches.push(...); await targetTrip.save()`
SaveTargetMatch(i) ==
  LET r == inflight[i]
  IN /\ r.pc = "targetTrip.save"
     /\ tripDocs' = [tripDocs EXCEPT ![r.targetTripId] = pushMatch(@, r.tripId)]
     /\ inflight' = [inflight EXCEPT ![i].pc = "userTrip.save matches"]
     /\ UNCHANGED <<matchDocs, chatRooms, messages, reply>>

\* `userTrip.matches.push(...); await userTrip.save()`, then the answer
SaveUserMatch(i) ==
  LET r == inflight[i]
  IN /\ r.pc = "userTrip.save matches"
     /\ tripDocs' = [tripDocs EXCEPT ![r.tripId] = pushMatch(@, r.targetTripId)]
     /\ inflight' = [inflight EXCEPT ![i].pc = "done", ![i].status = 200]
     /\ reply' = SwipeAnswer(Outcome(200, "Swipe recorded"), TRUE)
     /\ UNCHANGED <<matchDocs, chatRooms, messages>>

NextSwipes ==
  /\ UNCHANGED <<scoreVars, tripVars, routeVars>>
  /\ \/ \E caller \in Users, tripId \in SwipeKeys, targetTripId \in SwipeKeys,
           action \in SwipeActions :
          BeginSwipe(caller, tripId, targetTripId, action)
     \/ \E i \in 1..Len(inflight) :
          \/ FindUserTrip(i)
          \/ FindTargetTrip(i)
          \/ SaveSwipe(i)
          \/ SaveTargetMatch(i)
          \/ SaveUserMatch(i)

SpecSwipes == InitSwipe /\ [][NextSwipes]_vars

Done == pc = "done"
Res == Val(result)

IsPercent(x) == ~IsNaN(x) /\ Le(Num(0), x) /\ Le(x, Num(100))

HasRepeats(list) == Cardinality(Range(list)) < Len(list)

(***************************************************************************)
(* C1: for every requester, recipient and trip the returned score is an    *)
(* integer with 0 <= score <= 100.                                         *)
(* Violated: a trip whose start equals its end makes the score NaN, and an *)
(* interests list with a repeated tag can push the score above 100.        *)
(***************************************************************************)
C1_ScoreIsIntegerPercent ==
  Done => /\ Res.score.den = 1
          /\ 0 <= Res.score.num
          /\ Res.score.num <= 100

(***************************************************************************)
(* C2: for every input each of the six returned factor values lies in      *)
(* [0, 100].                                                               *)
(* Violated: dateOverlap is NaN for a trip of no extent, and               *)
(* interestSimilarity exceeds 100 when the requester repeats a tag.        *)
(***************************************************************************)
C2_FactorsArePercents ==
  Done => \A f \in FactorNames : IsPercent(Res.factors[f])

(***************************************************************************)
(* C3: the score equals round(0.30*destinationMatch + 0.25*dateOverlap +   *)
(* 0.20*interestSimilarity + 0.15*budgetCompatibility +                    *)
(* 0.05*travelStyleMatch + 0.05*languageMatch) of the factor values        *)
(* returned in the same result.                                            *)
(***************************************************************************)
C3_WeightedSumIdentity ==
  Done =>
    LET F == Res.factors
        sum == Add(Add(Add(Add(Add(Mul(Rat(30, 100), F.destinationMatch),
                                   Mul(Rat(25, 100), F.dateOverlap)),
                               Mul(Rat(20, 100), F.interestSimilarity)),
                           Mul(Rat(15, 100), F.budgetCompatibility)),
                       Mul(Rat(5, 100), F.travelStyleMatch)),
                   Mul(Rat(5, 100), F.languageMatch))
    IN Res.score = (IF IsNaN(sum) THEN NaN
                    ELSE IF 2 * (sum.num % sum.den) >= sum.den
                      THEN Num(sum.num \div sum.den + 1)
                      ELSE Num(sum.num \div sum.den))

\* a call whose weighted sum, 20/3, is a proper fraction that is rounded up
C3_Witness ==
  /\ Done
  /\ Res.factors.interestSimilarity = Rat(100, 3)
  /\ Res.factors.destinationMatch = Num(0)
  /\ Res.score = Num(7)

(***************************************************************************)
(* C4: the weight table holds exactly one weight for each of the six       *)
(* factors and the weights sum to 1.0.                                     *)
(***************************************************************************)
C4_WeightsSumToOne ==
  /\ DOMAIN weights = FactorNames
  /\ Cardinality(FactorNames) = 6
  /\ totalScore([f \in FactorNames |-> Num(1)], FactorKeys) = Num(1)
  /\ Done => DOMAIN Res.factors = DOMAIN weights

\* a call in which every factor is 100 and the weights add up to a score of 100
C4_Witness ==
  /\ Done
  /\ \A f \in FactorNames : Res.factors[f] = Num(100)
  /\ Res.score = Num(100)

(***************************************************************************)
(* C5: swapping requester and recipient leaves destinationMatch,           *)
(* interestSimilarity, languageMatch and dateOverlap unchanged.            *)
(* Violated: the common entries are counted over the requester's list, so  *)
(* a repeated entry on one side counts on that side only.                  *)
(***************************************************************************)
C5_SwapSymmetric ==
  Done =>
    LET swapped == calculateCompatibilityScore(recipient, requester, trip)
    IN \A f \in {"destinationMatch", "interestSimilarity", "languageMatch", "dateOverlap"} :
         swapped.factors[f] = Res.factors[f]

(***************************************************************************)
(* Removing one optional attribute from a profile or from the trip.        *)
(***************************************************************************)
ProfileAttrs == {"preferredDestinations", "availableDates", "interests",
                 "budgetRange", "travelStyle", "languages"}
TripAttrs == {"dates", "budget"}

FactorOf(attr) ==
  CASE attr = "preferredDestinations" -> "destinationMatch"
    [] attr \in {"availableDates", "dates"} -> "dateOverlap"
    [] attr = "interests" -> "interestSimilarity"
    [] attr \in {"budgetRange", "budget"} -> "budgetCompatibility"
    [] attr = "travelStyle" -> "travelStyleMatch"
    [] attr = "languages" -> "languageMatch"

Without(object, attr) == [object EXCEPT ![attr] = Absent]

\* factors is the result of scoring with attribute attr removed: its factor
\* is 0 and the other five are those of the result with the attribute
ZeroedBy(factors, attr) ==
  /\ DOMAIN factors = FactorNames
  /\ factors[FactorOf(attr)] = Num(0)
  /\ \A f \in FactorNames \ {FactorOf(attr)} : factors[f] = Res.factors[f]

(***************************************************************************)
(* C6: when a profile or the trip lacks an optional attribute the call     *)
(* still returns a result, in which the factor that needs the attribute is *)
(* 0 and every other factor has the value it has with the attribute        *)
(* present.                                                                *)
(***************************************************************************)
C6_MissingAttributeZeroesItsFactor ==
  Done =>
    /\ \A a \in ProfileAttrs :
         /\ (~Has(requester[a]) \/ ~Has(recipient[a]))
              => Res.factors[FactorOf(a)] = Num(0)
         /\ ZeroedBy(ComputeFactors(Without(requester, a), recipient, trip), a)
         /\ ZeroedBy(ComputeFactors(requester, Without(recipient, a), trip), a)
    /\ \A a \in TripAttrs :
         /\ ~Has(trip[a]) => Res.factors[FactorOf(a)] = Num(0)
         /\ ZeroedBy(ComputeFactors(requester, recipient, Without(trip, a)), a)

\* the requester has no languages, the recipient has, and the five other
\* factors are at 100
C6_Witness ==
  /\ Done
  /\ ~Has(requester.languages) /\ Has(recipient.languages)
  /\ Res.factors.languageMatch = Num(0)
  /\ \A f \in FactorNames \ {"languageMatch"} : Res.factors[f] = Num(100)
  /\ Res.score = Num(95)

(***************************************************************************)
(* The cases of C7.                                                        *)
(***************************************************************************)
IdenticalInterestSets ==
  /\ Has(requester.interests) /\ Has(recipient.interests)
  /\ Range(Val(requester.interests)) = Range(Val(recipient.interests))

IdenticalTravelStyle ==
  /\ Has(requester.travelStyle) /\ Has(recipient.travelStyle)
  /\ Val(requester.travelStyle) = Val(recipient.travelStyle)

\* both budget ranges have a common band and the trip budget lies in it
TripBudgetInCommonBand ==
  /\ Has(requester.budgetRange) /\ Has(recipient.budgetRange) /\ Has(trip.budget)
  /\ Val(trip.budget) # 0
  /\ LET bandMin == MathMax(BudgetMin(Val(requester.budgetRange)),
                            BudgetMin(Val(recipient.budgetRange)))
         bandMax == MathMin(BudgetMax(Val(requester.budgetRange)),
                            BudgetMax(Val(recipient.budgetRange)))
     IN Le(bandMin, Num(Val(trip.budget))) /\ Le(Num(Val(trip.budget)), bandMax)

SharedLanguage ==
  /\ Has(requester.languages) /\ Has(recipient.languages)
  /\ Range(Val(requester.languages)) \cap Range(Val(recipient.languages)) # {}

\* some window of the list contains the whole trip window
Covers(availableDates, window) ==
  \E i \in 1..Len(availableDates) :
    availableDates[i].start <= window.start /\ window.end <= availableDates[i].end

FullyOverlappingAvailability ==
  /\ Has(requester.availableDates) /\ Has(recipient.availableDates) /\ Has(trip.dates)
  /\ Covers(Val(requester.availableDates), Val(trip.dates))
  /\ Covers(Val(recipient.availableDates), Val(trip.dates))

FiveCommonDestinations ==
  /\ Has(requester.preferredDestinations) /\ Has(recipient.preferredDestinations)
  /\ Cardinality(Range(Val(requester.preferredDestinations))
                   \cap Range(Val(recipient.preferredDestinations))) >= 5

NoOverlap(availableDates, window) ==
  \A i \in 1..Len(availableDates) :
    availableDates[i].end <= window.start \/ window.end <= availableDates[i].start

FullMismatch ==
  /\ Has(requester.interests) /\ Has(recipient.interests)
  /\ Range(Val(requester.interests)) \cap Range(Val(recipient.interests)) = {}
  /\ Has(requester.languages) /\ Has(recipient.languages)
  /\ Range(Val(requester.languages)) \cap Range(Val(recipient.languages)) = {}
  /\ Has(requester.travelStyle) /\ Has(recipient.travelStyle)
  /\ {Val(requester.travelStyle), Val(recipient.travelStyle)} = {"budget", "luxury"}
  /\ Has(requester.availableDates) /\ Has(recipient.availableDates) /\ Has(trip.dates)
  /\ NoOverlap(Val(requester.availableDates), Val(trip.dates))
  /\ NoOverlap(Val(recipient.availableDates), Val(trip.dates))
  /\ Has(requester.budgetRange) /\ Has(recipient.budgetRange) /\ Has(trip.budget)
  /\ Lt(Mul(Num(2), BudgetMax(Val(requester.budgetRange))), Num(Val(trip.budget)))
  /\ Lt(Mul(Num(2), BudgetMax(Val(recipient.budgetRange))), Num(Val(trip.budget)))

(***************************************************************************)
(* C8: two users who mismatch in all these respects score near 0:          *)
(* dateOverlap, interestSimilarity and languageMatch are 0 and             *)
(* travelStyleMatch is the matrix value 20, never the default 50.          *)
(* Violated: when the trip window starts and ends at the same instant no   *)
(* availability window overlaps it, and dateOverlap is NaN instead of 0.   *)
(***************************************************************************)
C8_FullMismatchScoresNearZero ==
  (Done /\ FullMismatch) =>
    /\ Res.factors.dateOverlap = Num(0)
    /\ Res.factors.interestSimilarity = Num(0)
    /\ Res.factors.languageMatch = Num(0)
    /\ Res.factors.travelStyleMatch = Num(20)
    /\ Le(Res.score, Num(50))

(***************************************************************************)
(* C9: a factor whose input is absent is scored 0 and keeps its full       *)
(* weight, so removing an optional attribute from a profile or from the    *)
(* trip never increases the score.                                         *)
(* Violated: a score that is NaN (trip window of no extent, or a budget    *)
(* range without max and preferred) becomes a number once the attribute    *)
(* behind the NaN factor is removed.                                       *)
(***************************************************************************)
C9_RemovingAttributeNeverIncreasesScore ==
  Done =>
    /\ \A a \in ProfileAttrs :
         /\ Le(calculateCompatibilityScore(Without(requester, a), recipient, trip).score,
               Res.score)
         /\ Le(calculateCompatibilityScore(requester, Without(recipient, a), trip).score,
               Res.score)
    /\ \A a \in TripAttrs :
         Le(calculateCompatibilityScore(requester, recipient, Without(trip, a)).score,
            Res.score)

(***************************************************************************)
(* C10: two calls with identical requester, recipient and trip return      *)
(* identical score and factors, whatever other calls ran in between or     *)
(* concurrently; a returned result is the function of the arguments alone. *)
(***************************************************************************)
C10_Deterministic ==
  \A c \in Calls, d \in Calls :
    (/\ calls[c].at = "returned"
     /\ calls[d].at = "returned"
     /\ calls[c].args = calls[d].args)
    => /\ calls[c].returned = calls[d].returned
       /\ calls[c].returned = calculateCompatibilityScore(calls[c].args.requester,
                                                          calls[c].args.recipient,
                                                          calls[c].args.trip)

\* two calls on the same arguments have returned a score of 100 and a call
\* on other arguments ran as well
C10_Witness ==
  \E c \in Calls, d \in Calls :
    /\ c # d
    /\ calls[c].at = "returned"
    /\ calls[d].at = "returned"
    /\ calls[c].args = calls[d].args
    /\ calls[c].returned.score = Num(100)
    /\ \E e \in Calls : calls[e].at # "idle" /\ calls[e].args # calls[c].args

(***************************************************************************)
(* The budget band of C11 and C12: each party's max is its explicit max or *)
(* 1.5 times its preferred amount, its min its explicit min or 0; the band *)
(* runs from the larger min to the smaller max.                            *)
(***************************************************************************)
PartyMax(b) == IF Has(b.max) THEN Num(Val(b.max))
               ELSE IF Has(b.preferred) THEN Rat(3 * Val(b.preferred), 2)
               ELSE NaN

PartyMin(b) == IF Has(b.min) THEN Num(Val(b.min)) ELSE Num(0)

BandMin == MathMax(PartyMin(Val(requester.budgetRange)),
                   PartyMin(Val(recipient.budgetRange)))

BandMax == MathMin(PartyMax(Val(requester.budgetRange)),
                   PartyMax(Val(recipient.budgetRange)))

BothBudgetRanges == Has(requester.budgetRange) /\ Has(recipient.budgetRange)

TripBudget == Num(Val(trip.budget))

(***************************************************************************)
(* C11: budgetCompatibility is 100 whenever both parties have a budget     *)
(* range and the trip budget lies in [bandMin, bandMax]; ranges [500,1500] *)
(* and [800,2000] with trip budget 1000 give 100.                          *)
(* Violated: a trip budget of 0 inside a band that starts at 0 is taken    *)
(* for a missing budget and the factor stays 0.                            *)
(***************************************************************************)
C11_InBandIs100 ==
  /\ calculateBudgetCompatibility(
       [min |-> Some(500), max |-> Some(1500), preferred |-> Absent],
       [min |-> Some(800), max |-> Some(2000), preferred |-> Absent], 1000) = Num(100)
  /\ (/\ Done
      /\ BothBudgetRanges
      /\ Has(trip.budget)
      /\ Le(BandMin, TripBudget)
      /\ Le(TripBudget, BandMax))
     => Res.factors.budgetCompatibility = Num(100)

\* Distance of an amount outside the band, and on which side it lies.
BelowBand(t) == Lt(Num(t), BandMin)

AboveBand(t) == Lt(BandMax, Num(t))

Distance(t) == IF BelowBand(t) THEN Sub(BandMin, Num(t)) ELSE Sub(Num(t), BandMax)

BudgetValue(t) ==
  calculateBudgetCompatibility(Val(requester.budgetRange), Val(recipient.budgetRange), t)

Penalty(t) == Sub(Num(100), BudgetValue(t))

OutsideAmounts == {t \in Amounts : BelowBand(t) \/ AboveBand(t)}

BothMaxKnown == ~IsNaN(BandMax)

(***************************************************************************)
(* C12: outside the band calculateBudgetCompatibility returns              *)
(* max(0, 100 * (1 - d / referenceBand)): the value is floored at 0 and,   *)
(* while it is above the floor, the penalty 100 - value grows linearly     *)
(* with the distance d on each side of the band (penalty / d is the same   *)
(* for any two budgets on the same side of the same band).                 *)
(* Violated: above the band the divisor is the trip budget itself, so the  *)
(* penalty is 100 * d / (bandMax + d), and a range with neither max nor    *)
(* preferred makes the value NaN.                                          *)
(***************************************************************************)
C12_LinearPenaltyOutsideBand ==
  (/\ Done
   /\ BothBudgetRanges
   /\ Has(trip.budget)
   /\ Val(trip.budget) \in OutsideAmounts
   /\ BothMaxKnown)
  => /\ Res.factors.budgetCompatibility = BudgetValue(Val(trip.budget))
     /\ Ge(Res.factors.budgetCompatibility, Num(0))
     /\ \A t2 \in OutsideAmounts :
          (/\ BelowBand(t2) <=> BelowBand(Val(trip.budget))
           /\ Lt(Num(0), BudgetValue(t2))
           /\ Lt(Num(0), Res.factors.budgetCompatibility))
          => Mul(Penalty(Val(trip.budget)), Distance(t2))
               = Mul(Penalty(t2), Distance(Val(trip.budget)))

(***************************************************************************)
(* The overlap percentage of C13, written from its closed form: the sum    *)
(* over the windows of max(0, min(tripEnd, windowEnd) -                    *)
(* max(tripStart, windowStart)), over the trip duration, clamped to 100.   *)
(***************************************************************************)
WindowOverlap(w, tripStart, tripEnd) ==
  LET hi == IF tripEnd < w.end THEN tripEnd ELSE w.end
      lo == IF tripStart > w.start THEN tripStart ELSE w.start
  IN IF hi - lo > 0 THEN hi - lo ELSE 0

RECURSIVE SumOverlaps(_, _, _)
SumOverlaps(windows, tripStart, tripEnd) ==
  IF windows = <<>> THEN 0
  ELSE WindowOverlap(Head(windows), tripStart, tripEnd)
         + SumOverlaps(Tail(windows), tripStart, tripEnd)

OverlapPercent(windows, tripStart, tripEnd) ==
  LET total == 100 * SumOverlaps(windows, tripStart, tripEnd)
      duration == tripEnd - tripStart
  IN IF total >= 100 * duration THEN Num(100) ELSE Rat(total, duration)

ProperTripWindow == Has(trip.dates) /\ Val(trip.dates).start < Val(trip.dates).end

PartyOverlap(party) ==
  calculateDateOverlap(Val(party.availableDates), Val(trip.dates).start, Val(trip.dates).end)

(***************************************************************************)
(* C13: for a trip window with tripStart < tripEnd and any list of         *)
(* availability windows, calculateDateOverlap returns                      *)
(* min(100, 100 * sum of the windows' overlaps / (tripEnd - tripStart));   *)
(* a 14-day trip window with one availability window covering its last 5   *)
(* days gives 5/14 of 100.                                                 *)
(***************************************************************************)
C13_DateOverlapClosedForm ==
  /\ calculateDateOverlap(<<[start |-> 10, end |-> 20]>>, 1, 15) = Rat(500, 14)
  /\ (Done /\ ProperTripWindow) =>
       \A party \in {requester, recipient} :
         Has(party.availableDates) =>
           PartyOverlap(party)
             = OverlapPercent(Val(party.availableDates),
                              Val(trip.dates).start, Val(trip.dates).end)

\* Two different windows whose parts inside the trip window add up to two
\* days, at least the whole trip: the percentage is 100.
C13_Witness ==
  /\ Done
  /\ ProperTripWindow
  /\ Has(requester.availableDates)
  /\ Len(Val(requester.availableDates)) = 2
  /\ SumOverlaps(Val(requester.availableDates),
                 Val(trip.dates).start, Val(trip.dates).end) = 2
  /\ Val(requester.availableDates)[1] # Val(requester.availableDates)[2]
  /\ PartyOverlap(requester) = Num(100)

NoAvailability(party) ==
  ~Has(party.availableDates) \/ Val(party.availableDates) = <<>>

(***************************************************************************)
(* C14: the dateOverlap factor is the minimum of the requester's and the   *)
(* recipient's overlap percentages against the same trip window, and it is *)
(* 0 whenever either party has no availability data (availableDates absent *)
(* or empty).                                                              *)
(* Violated: with a trip window whose start equals its end the other       *)
(* party's percentage is NaN, and Math.min(0, NaN) is NaN.                 *)
(***************************************************************************)
C14_DateOverlapIsMinimum ==
  Done =>
    /\ (Has(requester.availableDates) /\ Has(recipient.availableDates) /\ Has(trip.dates))
         => Res.factors.dateOverlap
              = MathMin(PartyOverlap(requester), PartyOverlap(recipient))
    /\ (NoAvailability(requester) \/ NoAvailability(recipient))
         => Res.factors.dateOverlap = Num(0)

SetOf(attr) == IF Has(attr) THEN Range(Val(attr)) ELSE {}

(***************************************************************************)
(* C15: the interestSimilarity factor is 100 * |interests common to        *)
(* requester and recipient| / |union of both interest sets|, and 0 if      *)
(* either interest set is empty or absent.                                 *)
(* Violated: the common interests are counted per entry of the requester's *)
(* list, so a tag the requester lists twice counts twice.                  *)
(***************************************************************************)
C15_InterestSimilarityIsJaccard ==
  Done =>
    LET common == SetOf(requester.interests) \cap SetOf(recipient.interests)
        union == SetOf(requester.interests) \cup SetOf(recipient.interests)
    IN Res.factors.interestSimilarity
         = IF SetOf(requester.interests) = {} \/ SetOf(recipient.interests) = {}
           THEN Num(0)
           ELSE Rat(100 * Cardinality(common), Cardinality(union))

\* The entries of the style matrix off its diagonal, by unordered pair.
PairValue(a, b) ==
  LET pair == {a, b}
  IN CASE pair = {"budget", "mid-range"} -> 70
       [] pair = {"budget", "luxury"} -> 20
       [] pair = {"budget", "backpacker"} -> 90
       [] pair = {"mid-range", "luxury"} -> 80
       [] pair = {"mid-range", "backpacker"} -> 50
       [] pair = {"luxury", "backpacker"} -> 10

BothStyles == Has(requester.travelStyle) /\ Has(recipient.travelStyle)

InMatrix(style) == style \in {"budget", "mid-range", "luxury", "backpacker"}

(***************************************************************************)
(* C16: the travelStyleMatch factor is 100 when requester and recipient    *)
(* have identical travel styles; otherwise it is the matrix entry of the   *)
(* two styles when both are in {budget, mid-range, luxury, backpacker},    *)
(* and the default 50 is used if and only if at least one style is not in  *)
(* the matrix (no entry of the matrix is replaced by the default).         *)
(***************************************************************************)
C16_TravelStyleMatchValues ==
  (Done /\ BothStyles) =>
    LET a == Val(requester.travelStyle)
        b == Val(recipient.travelStyle)
    IN /\ a = b => Res.factors.travelStyleMatch = Num(100)
       /\ (a # b /\ InMatrix(a) /\ InMatrix(b))
            => /\ Res.factors.travelStyleMatch = Num(PairValue(a, b))
               /\ getTravelStyleCompatibility(a, b) = compatibilityMatrix[a][b]
       /\ (a # b /\ ~(InMatrix(a) /\ InMatrix(b)))
            => Res.factors.travelStyleMatch = Num(50)

\* A style outside the matrix against one inside it: the default applies.
C16_Witness ==
  /\ Done
  /\ BothStyles
  /\ Val(requester.travelStyle) = "solo"
  /\ Val(recipient.travelStyle) = "luxury"
  /\ Res.factors.travelStyleMatch = Num(50)

(***************************************************************************)
(* C17: the travel-style compatibility matrix is symmetric: for all styles *)
(* a and b, getTravelStyleCompatibility(a, b) =                            *)
(* getTravelStyleCompatibility(b, a), so the travelStyleMatch of a call    *)
(* does not change when requester and recipient are swapped.               *)
(***************************************************************************)
C17_StyleMatrixSymmetric ==
  /\ \A a \in Styles, b \in Styles :
       getTravelStyleCompatibility(a, b) = getTravelStyleCompatibility(b, a)
  /\ Done => Res.factors.travelStyleMatch = travelStyleMatch(recipient, requester)

\* Two different styles of the matrix were scored, and the swapped call has
\* the same value.
C17_Witness ==
  /\ Done
  /\ BothStyles
  /\ Val(requester.travelStyle) = "budget"
  /\ Val(recipient.travelStyle) = "backpacker"
  /\ Res.factors.travelStyleMatch = Num(90)
  /\ travelStyleMatch(recipient, requester) = Num(90)

SharedDestinations ==
  SetOf(requester.preferredDestinations) \cap SetOf(recipient.preferredDestinations)

(***************************************************************************)
(* C18: the destinationMatch factor is min(20 * number of preferred        *)
(* destinations common to requester and recipient, 100), so it is 100      *)
(* exactly when the two preferred-destination sets share at least 5        *)
(* destinations.                                                           *)
(* Violated: the common destinations are counted per entry of the          *)
(* requester's list, so a destination listed twice counts twice.           *)
(***************************************************************************)
C18_DestinationMatchCountsShared ==
  Done =>
    /\ Res.factors.destinationMatch
         = Num(Min(20 * Cardinality(SharedDestinations), 100))
    /\ Res.factors.destinationMatch = Num(100)
         <=> Cardinality(SharedDestinations) >= 5

SharedInterests == Range(userTrip.interests) \cap Range(otherTrip.interests)

TripInterestTerm == interestTerm(userTrip, otherTrip)

(***************************************************************************)
(* C20: in the trip-vs-trip score the interest term is |interests shared   *)
(* by the two trips| / max(|interests_A|, |interests_B|) of its weight 20: *)
(* two trips with 2 interests each that share exactly one get 10 of the 20 *)
(* points, and trips with no shared interest get 0.                        *)
(* Violated: the shared interests are counted per entry of the first       *)
(* trip's list, so an interest listed twice counts twice.                  *)
(***************************************************************************)
C20_TripInterestTerm ==
  /\ interestTerm([interests |-> <<"adventure", "food">>],
                  [interests |-> <<"food", "culture">>]) = Num(10)
  /\ TripsDone =>
       /\ SharedInterests = {} => TripInterestTerm = Num(0)
       /\ SharedInterests # {} =>
            TripInterestTerm
              = Rat(20 * Cardinality(SharedInterests),
                    MaxInt(Cardinality(Range(userTrip.interests)),
                           Cardinality(Range(otherTrip.interests))))
       /\ (/\ Len(userTrip.interests) = 2
           /\ Len(otherTrip.interests) = 2
           /\ Cardinality(SharedInterests) = 1) => TripInterestTerm = Num(10)

\* The score the route's scorer gives candidate i, and the threshold of the
\* served route: 30 for potential, the caller's minScore or 50 for discover.
CandidateCount ==
  IF query.route = "potential" THEN Len(otherTrips) ELSE Len(discoverTrips)

CandidateScored(i) == query.route = "potential" => ~otherTrips[i].existingMatch

CandidateScore(i) ==
  IF query.route = "potential"
  THEN calculateCompatibilityScore(requester, otherTrips[i].creator,
                                   otherTrips[i].trip).score
  ELSE calculateCompatibilityScoreTrips(userTrip, discoverTrips[i].trip, user,
                                        discoverTrips[i].creator).score

Threshold ==
  IF query.route = "potential" THEN Num(30)
  ELSE IF Has(query.minScore) THEN ToNumber(Val(query.minScore))
  ELSE Num(50)

AtLeastThreshold ==
  {i \in 1..CandidateCount : CandidateScored(i) /\ Le(Threshold, CandidateScore(i))}

ListBuilt == Served /\ Resp.status = 200 /\ query.userTrips > 0

(***************************************************************************)
(* C19: the candidate lists built by GET /matches/potential and            *)
(* GET /matches/discover contain exactly the scored candidates whose score *)
(* is at least the threshold (30 for potential; the caller's minScore,     *)
(* default 50, for discover), each once and with its score, ordered by     *)
(* non-increasing score before pagination.                                 *)
(***************************************************************************)
C19_ListsFilteredAndSorted ==
  ListBuilt =>
    LET list == Resp.sorted
    IN /\ {list[j].candidate : j \in 1..Len(list)} = AtLeastThreshold
       /\ Len(list) = Cardinality(AtLeastThreshold)
       /\ \A j \in 1..Len(list) : list[j].score = CandidateScore(list[j].candidate)
       /\ \A j \in 1..Len(list), k \in 1..Len(list) :
            j < k => Le(list[k].score, list[j].score)
       /\ Resp.total = Len(list)

\* GET /potential has left out a candidate and moved the last candidate in
\* front of the first; a candidate with exactly 30 is listed.
C19_Witness ==
  /\ ListBuilt
  /\ query.route = "potential"
  /\ Len(otherTrips) = 3
  /\ Len(Resp.sorted) = 2
  /\ Resp.sorted[1].candidate = 3
  /\ Resp.sorted[2].candidate = 1
  /\ Resp.sorted[2].score = Num(30)
  /\ ~otherTrips[2].existingMatch

\* GET /discover with the caller's own minScore has done the same.
C19_WitnessDiscover ==
  /\ ListBuilt
  /\ query.route = "discover"
  /\ Has(query.minScore)
  /\ Threshold = Num(40)
  /\ Len(discoverTrips) = 3
  /\ Len(Resp.sorted) = 2
  /\ Resp.sorted[1].candidate = 3
  /\ Lt(Resp.sorted[2].score, Num(50))

StartBeforeEnd(t) == t.startDate <= t.endDate

(***************************************************************************)
(* C21: the trip-vs-trip calculateCompatibilityScore returns an integer    *)
(* score with 0 <= score <= 100 for every pair of trips with start <= end  *)
(* and non-negative budgets and every pair of users.                       *)
(* Violated: two trips with budget 0, or two trips on the same single day, *)
(* make a term 0 / 0 and the score NaN.                                    *)
(***************************************************************************)
C21_TripScoreIsIntegerPercent ==
  (/\ TripsDone
   /\ StartBeforeEnd(userTrip) /\ StartBeforeEnd(otherTrip)
   /\ userTrip.budget >= 0 /\ otherTrip.budget >= 0)
  => /\ ~IsNaN(TripRes.score)
     /\ TripRes.score.den = 1
     /\ TripRes.score.num \in 0..100

(***************************************************************************)
(* C22 to C25: the match-request workflow, one request at a time.          *)
(***************************************************************************)
Participants(trips) == [t \in DOMAIN trips |-> trips[t].participants]

\* the caller is the match's recipient, the match is pending and the
\* response is 'accepted' or 'rejected'
MayRespond(caller, matchId, answer) ==
  /\ matchId \in 1..Len(matchDocs)
  /\ matchDocs[matchId].recipient = caller
  /\ matchDocs[matchId].status = "pending"
  /\ answer \in {"accepted", "rejected"}

\* C22: PUT /:matchId/respond sets the match's status to the response when
\* the caller is the match's recipient, the match is pending and the
\* response is 'accepted' or 'rejected'; in every other case it answers
\* with an error status and leaves the matches, the chat rooms and every
\* trip's participants unchanged.
C22_RespondChangesOnlyWhenAllowed ==
  [][reply'[1].op = "respond" =>
       \A caller \in Callers, matchId \in MatchIds,
          answer \in {"accepted", "rejected", "maybe"} :
         Respond(caller, matchId, answer) =>
           IF MayRespond(caller, matchId, answer)
           THEN /\ reply'[1].status = 200
                /\ matchDocs'[matchId].status = answer
           ELSE /\ reply'[1].status \in {400, 403, 404}
                /\ matchDocs' = matchDocs
                /\ chatRooms' = chatRooms
                /\ Participants(tripDocs') = Participants(tripDocs)]_vars

\* a caller who is not the recipient was refused while the match is pending
C22_Witness ==
  /\ reply = Answer("respond",
                    Outcome(403, "You can only respond to matches sent to you"))
  /\ \E i \in 1..Len(matchDocs) : matchDocs[i].status = "pending"

\* C23: a match whose status is 'accepted' is still 'accepted' after every
\* further request: cancel refuses an accepted match and respond refuses a
\* match that is not pending.
C23_AcceptedStaysAccepted ==
  [][\A i \in 1..Len(matchDocs) :
       matchDocs[i].status = "accepted" =>
         /\ i \in 1..Len(matchDocs')
         /\ matchDocs'[i].status = "accepted"]_vars

\* the requester tried to cancel a match that had been accepted
C23_Witness ==
  /\ reply = Answer("cancel",
                    Outcome(400, "Cannot cancel an accepted match request"))
  /\ \E i \in 1..Len(matchDocs) : matchDocs[i].status = "accepted"

\* C24: no two Match records have the same (requester, recipient, trip).
C24_OneMatchPerTriple ==
  \A i, j \in 1..Len(matchDocs) :
    (/\ matchDocs[i].requester = matchDocs[j].requester
     /\ matchDocs[i].recipient = matchDocs[j].recipient
     /\ matchDocs[i].trip = matchDocs[j].trip) => i = j

\* a repeated request was rejected
C24_Witness ==
  /\ reply = Answer("request",
                    Outcome(400, "A match request already exists for this trip"))
  /\ Len(matchDocs) >= 1

\* C25: a match references a chat room exactly when its status is
\* 'accepted', and that chat room's participants are the match's requester
\* and recipient.
C25_ChatRoomIffAccepted ==
  \A i \in 1..Len(matchDocs) :
    /\ Has(matchDocs[i].chatRoom) <=> matchDocs[i].status = "accepted"
    /\ Has(matchDocs[i].chatRoom) =>
         /\ Val(matchDocs[i].chatRoom) \in 1..Len(chatRooms)
         /\ Range(chatRooms[Val(matchDocs[i].chatRoom)].participants)
              = {matchDocs[i].requester, matchDocs[i].recipient}
         /\ Len(chatRooms[Val(matchDocs[i].chatRoom)].participants) = 2

\* an accepted match with its chat room next to a cancelled one without
C25_Witness ==
  /\ \E i \in 1..Len(matchDocs) :
       matchDocs[i].status = "accepted" /\ Has(matchDocs[i].chatRoom)
  /\ \E i \in 1..Len(matchDocs) :
       matchDocs[i].status = "cancelled" /\ ~Has(matchDocs[i].chatRoom)

(***************************************************************************)
(* C26 and C27: swipes, one request at a time.                             *)
(***************************************************************************)
SwipesAndMatches(trips) ==
  [t \in DOMAIN trips |-> <<trips[t].swipes, trips[t].matches>>]

OneSwipePerTarget(trips) ==
  \A t \in DOMAIN trips : \A i, j \in 1..Len(trips[t].swipes) :
    trips[t].swipes[i].targetTrip = trips[t].swipes[j].targetTrip => i = j

AlreadySwiped(tripId, targetTripId) ==
  /\ tripId \in DOMAIN tripDocs
  /\ \E i \in 1..Len(tripDocs[tripId].swipes) :
       tripDocs[tripId].swipes[i].targetTrip = targetTripId

\* C26: a trip holds at most one swipe record per target trip; a swipe on
\* a target the trip has already swiped is rejected (with 'Already swiped
\* on this trip' when the request is otherwise valid) and leaves the
\* swipes and matches of every trip unchanged.
C26_OneSwipePerTarget ==
  [][/\ OneSwipePerTarget(tripDocs')
     /\ \A tripId \in TripKeys, targetTripId \in TripKeys :
          AlreadySwiped(tripId, targetTripId) =>
            \A caller \in Users, action \in SwipeActions :
              Swipe(caller, tripId, targetTripId, action) =>
                /\ reply'[1].status # 200
                /\ (action \in {"like", "pass"}
                      /\ targetTripId \in DOMAIN tripDocs
                      /\ tripDocs[tripId].creator = caller)
                     => reply'[1].message = "Already swiped on this trip"
                /\ SwipesAndMatches(tripDocs') = SwipesAndMatches(tripDocs)]_vars

\* a second swipe on the same target was rejected
C26_Witness ==
  /\ reply = Answer("swipe", Outcome(400, "Already swiped on this trip"))
  /\ \E t \in DOMAIN tripDocs : Len(tripDocs[t].swipes) >= 1

MatchesOf(trips, t) ==
  IF t \in DOMAIN trips THEN trips[t].matches ELSE <<>>

TargetLikes(tripId, targetTripId) ==
  /\ targetTripId \in DOMAIN tripDocs
  /\ \E i \in 1..Len(tripDocs[targetTripId].swipes) :
       /\ tripDocs[targetTripId].swipes[i].targetTrip = tripId
       /\ tripDocs[targetTripId].swipes[i].action = "like"

\* C27: a swipe that is recorded reports isMatch = true and appends a match
\* entry to both trips (the user's trip gets the target trip, the target
\* trip gets the user's trip) exactly when the action is 'like' and the
\* target trip already holds a 'like' swipe on the user's trip; otherwise
\* it reports isMatch = false and no trip's matches change.
C27_MatchExactlyOnMutualLike ==
  [][reply'[1].status = 200 =>
       \A caller \in Users, tripId \in TripKeys, targetTripId \in TripKeys,
          action \in SwipeActions :
         Swipe(caller, tripId, targetTripId, action) =>
           IF action = "like" /\ TargetLikes(tripId, targetTripId)
           THEN /\ reply'[1].isMatch
                /\ tripDocs'[tripId].matches =
                     Append(tripDocs[tripId].matches,
                            [matchedTrip |-> targetTripId])
                /\ tripDocs'[targetTripId].matches =
                     Append(tripDocs[targetTripId].matches,
                            [matchedTrip |-> tripId])
           ELSE /\ ~reply'[1].isMatch
                /\ \A t \in DOMAIN tripDocs :
                     tripDocs'[t].matches = tripDocs[t].matches]_vars

\* a like answered a like: both trips hold the other as a match
C27_Witness ==
  /\ Has(reply) /\ Val(reply).op = "swipe" /\ Val(reply).status = 200
  /\ Val(reply).isMatch
  /\ \E t, u \in DOMAIN tripDocs :
       /\ t # u
       /\ \E i \in 1..Len(tripDocs[t].matches) :
            tripDocs[t].matches[i].matchedTrip = u
       /\ \E i \in 1..Len(tripDocs[u].matches) :
            tripDocs[u].matches[i].matchedTrip = t

(***************************************************************************)
(* C28: unread counts of the chat rooms.                                   *)
(***************************************************************************)
\* the messages of room r sent by others that u has not fetched yet
Unfetched(r, u) ==
  {i \in 1..Len(messages) :
     /\ messages[i].chatRoom = r
     /\ messages[i].sender # u
     /\ u \notin Range(messages[i].readBy)}

UnreadCounts(rooms) ==
  [r \in 1..Len(rooms) |->
     [u \in Range(rooms[r].participants) |-> unreadOf(rooms[r], u)]]

AfterSend(counts, r, sender) ==
  [q \in DOMAIN counts |->
     [u \in DOMAIN counts[q] |->
        IF q = r /\ u # sender THEN counts[q][u] + 1 ELSE counts[q][u]]]

AfterFetch(counts, r, reader) ==
  [q \in DOMAIN counts |->
     [u \in DOMAIN counts[q] |->
        IF q = r /\ u = reader THEN 0 ELSE counts[q][u]]]

RoomsOf(matchId) == {r \in 1..Len(chatRooms) : chatRooms[r].match = matchId}

\* C29: at most one chat room exists for a match, also when two 'accepted'
\* respond requests for the same pending match are processed concurrently.
C29_OneChatRoomPerMatch ==
  \A matchId \in 1..Len(matchDocs) : Cardinality(RoomsOf(matchId)) <= 1

(***************************************************************************)
(* C30: two owners like each other's trip in concurrent requests.          *)
(***************************************************************************)
Listed(tripId, otherId) ==
  \E k \in 1..Len(tripDocs[tripId].matches) :
    tripDocs[tripId].matches[k].matchedTrip = otherId

Liked(r) == r.pc = "done" /\ r.status = 200 /\ r.action = "like"

\* C30: when the owners of two trips have each swiped 'like' on the
\* other's trip and both requests have completed, each trip's matches list
\* contains the other trip.
C30_MutualLikesMatch ==
  \A i, j \in 1..Len(inflight) :
    (/\ Liked(inflight[i]) /\ Liked(inflight[j])
     /\ inflight[i].tripId # inflight[i].targetTripId
     /\ inflight[j].tripId = inflight[i].targetTripId
     /\ inflight[j].targetTripId = inflight[i].tripId)
    => /\ Listed(inflight[i].tripId, inflight[j].tripId)
       /\ Listed(inflight[j].tripId, inflight[i].tripId)

====
